---- MODULE Spec2Model ----
(***************************************************************************)
(* A model of the incremental indexing engine of claude-code-chat-explorer: *)
(* the SQLite store (DatabaseManager.js) and the indexer (Indexer.js).      *)
(*                                                                          *)
(* Representation.  A JavaScript string is a sequence of atoms (TLA+        *)
(* strings that are never split further): the file name "s1.jsonl" is       *)
(* <<"s1", ".jsonl">>, the id "s1_agent" is <<"s1", "_", "agent">>.  A path  *)
(* is the sequence of its segments as String.split('/') returns them, so    *)
(* "/c/projects" is << <<>>, <<"c">>, <<"projects">> >>.  Searchable text   *)
(* is a sequence of one-character strings.                                  *)
(***************************************************************************)
EXTENDS Integers, Sequences, FiniteSets, Bags, TLC

(***************************************************************************)
(* Values                                                                   *)
(***************************************************************************)
\* SQL NULL / JavaScript null or undefined, as a string value
Null == <<"<NULL>">>
\* the empty string ''
Empty == <<>>
\* null as a path value (a cwd that was never found)
NullPath == <<Null>>

\* undefined where the code tells it from null (a property that is not given)
Undefined == <<"<UNDEFINED>">>
\* a value that is not a string and has no toUpperCase (a number, an array)
NotAString == <<"<NUMBER>">>

\* JavaScript truthiness of a string-or-null value
Falsy(s) == s = Null \/ s = Empty
\* `s || null`
OrNull(s) == IF Falsy(s) THEN Null ELSE s
\* `s || ''`
OrEmpty(s) == IF Falsy(s) THEN Empty ELSE s
\* truthiness of a cwd value ('' is <<Empty>>, null is NullPath)
FalsyPath(p) == p = NullPath \/ p = <<Empty>>
\* `n || 0` for a number-or-undefined (undefined is -1 in the model)
Undef == 0 - 1
OrZero(n) == IF n = Undef THEN 0 ELSE n

Min(a, b) == IF a < b THEN a ELSE b

\* Array.prototype.indexOf: 0-based, -1 when absent
IndexOf(seq, x) ==
  IF \E i \in 1..Len(seq) : seq[i] = x
  THEN (CHOOSE i \in 1..Len(seq) : seq[i] = x /\ \A j \in 1..(i - 1) : seq[j] # x) - 1
  ELSE 0 - 1

\* seq[k] with a 0-based index
At(seq, k) == seq[k + 1]

\* String.prototype.slice(0, n)
Slice(s, n) == SubSeq(s, 1, Min(Len(s), n))

RECURSIVE SumLen(_)
\* number of characters of a string given as a sequence of atoms
SumLen(s) == IF s = <<>> THEN 0 ELSE Len(Head(s)) + SumLen(Tail(s))

RECURSIVE PathLength(_)
\* String.length of a path: the segments' characters plus the separators
PathLength(p) ==
  IF Len(p) = 0 THEN 0
  ELSE IF Len(p) = 1 THEN SumLen(p[1])
  ELSE SumLen(Head(p)) + 1 + PathLength(Tail(p))

RECURSIVE DropTrailingEmpty(_)
DropTrailingEmpty(p) ==
  IF Len(p) > 0 /\ p[Len(p)] = Empty THEN DropTrailingEmpty(SubSeq(p, 1, Len(p) - 1)) ELSE p

\* path.basename: the last segment, trailing separators ignored; '' for '/'
Basename(p) ==
  LET q == DropTrailingEmpty(p) IN IF Len(q) = 0 THEN Empty ELSE q[Len(q)]

RECURSIVE Join(_, _)
\* Array.prototype.join
Join(parts, sep) ==
  IF Len(parts) = 0 THEN <<>>
  ELSE IF Len(parts) = 1 THEN parts[1]
  ELSE Head(parts) \o sep \o Join(Tail(parts), sep)

\* !s.trim(): no character other than white space
IsBlank(s) == \A i \in 1..Len(s) : s[i] \in {" ", "\t", "\n", "\r"}

(***************************************************************************)
(* Parser: Indexer._parseJsonlStreaming and its helpers                     *)
(***************************************************************************)
\* a message content: absent, a string, an array of blocks or one block
NoContent == [kind |-> "none", str |-> <<>>, blocks |-> <<>>]
StrContent(s) == [kind |-> "string", str |-> s, blocks |-> <<>>]
ArrContent(bs) == [kind |-> "array", str |-> <<>>, blocks |-> bs]
ObjContent(b) == [kind |-> "object", str |-> <<>>, blocks |-> <<b>>]
TextBlock(t) == [type |-> "text", text |-> t, name |-> Null]
ToolBlock(n) == [type |-> "tool_use", text |-> Null, name |-> n]
\* a JSON null inside a content array: reading its .type raises TypeError
NullBlock == [type |-> "null", text |-> Null, name |-> Null]

\* !content
FalsyContent(c) == c.kind = "none" \/ (c.kind = "string" /\ c.str = Empty)

\* Indexer._extractTextContent; throws is TRUE when block.type raises
_extractTextContent(content) ==
  IF FalsyContent(content) THEN [throws |-> FALSE, text |-> Empty]
  ELSE IF content.kind = "string" THEN [throws |-> FALSE, text |-> content.str]
  ELSE IF content.kind = "array" THEN
    IF \E i \in 1..Len(content.blocks) : content.blocks[i] = NullBlock
    THEN [throws |-> TRUE, text |-> Empty]
    ELSE LET texts == SelectSeq(content.blocks, LAMBDA b : b.type = "text")
             strs == [i \in 1..Len(texts) |-> OrEmpty(texts[i].text)]
         IN [throws |-> FALSE, text |-> Join(strs, <<"\n">>)]
  ELSE IF content.blocks[1].type = "text"
    THEN [throws |-> FALSE, text |-> OrEmpty(content.blocks[1].text)]
    ELSE [throws |-> FALSE, text |-> Empty]

\* every tool_use block gives a name, its own or none (C32)
_extractToolNames_AnyBlock(content) ==
  IF (content.kind = "none" \/ (content.kind = "string" /\ content.str = <<>>))
       \/ content.kind = "string" THEN <<>>
  ELSE LET used == SelectSeq(content.blocks, LAMBDA b : b.type = "tool_use")
       IN [i \in 1..Len(used) |-> used[i].name]

\* Indexer._extractToolNames: the names of the tool_use blocks, in order
_extractToolNames(content) ==
  IF FalsyContent(content) \/ content.kind = "string" THEN <<>>
  ELSE LET used == SelectSeq(content.blocks,
                             LAMBDA b : b.type = "tool_use" /\ ~Falsy(b.name))
       IN [i \in 1..Len(used) |-> used[i].name]

\* one line of a log file
BlankLine ==
  [kind |-> "blank", type |-> "", message |-> FALSE, cwd |-> NullPath, mcwd |-> NullPath,
   content |-> NoContent, usage |-> FALSE, input |-> Undef, output |-> Undef, model |-> Null]
GarbageLine == [BlankLine EXCEPT !.kind = "garbage"]
JsonLine(type, cwd, content) ==
  [BlankLine EXCEPT !.kind = "json", !.type = type, !.message = TRUE, !.cwd = cwd,
                    !.content = content]

\* the accumulator of _parseJsonlStreaming before the first line
ParseStart ==
  [messageCount |-> 0, input |-> 0, output |-> 0, total |-> 0, cwd |-> NullPath,
   modelCounts |-> <<>>, primaryModel |-> Null, tools |-> <<>>, toolTotal |-> 0,
   contentParts |-> <<>>, searchableContent |-> Empty, lineCount |-> 0,
   parseErrorCount |-> 0]

\* obj[key] = (obj[key] || 0) + 1 on an insertion-ordered object, kept as a
\* sequence of <<key, count>>
Bump(counts, key) ==
  IF \E i \in 1..Len(counts) : counts[i][1] = key
  THEN [i \in 1..Len(counts) |->
          IF counts[i][1] = key THEN <<key, counts[i][2] + 1>> ELSE counts[i]]
  ELSE Append(counts, <<key, 1>>)

RECURSIVE BumpAll(_, _)
BumpAll(counts, keys) ==
  IF keys = <<>> THEN counts ELSE BumpAll(Bump(counts, Head(keys)), Tail(keys))

\* every line is taken for a message (C15)
OnLine_EveryLineCounts(r0, line) ==
  [r0 EXCEPT !.lineCount = @ + 1, !.messageCount = @ + 1]

\* the rl.on('line') handler
OnLine(r0, line) ==
  LET r == [r0 EXCEPT !.lineCount = @ + 1] IN
  IF line.kind = "blank" THEN r
  ELSE IF line.kind = "garbage" THEN [r EXCEPT !.parseErrorCount = @ + 1]
  ELSE
    LET r1 == IF FalsyPath(r.cwd)
              THEN IF ~FalsyPath(line.cwd) THEN [r EXCEPT !.cwd = line.cwd]
                   ELSE IF line.message /\ ~FalsyPath(line.mcwd)
                        THEN [r EXCEPT !.cwd = line.mcwd] ELSE r
              ELSE r
    IN
    IF ~(line.message /\ line.type \in {"assistant", "user"}) THEN r1
    ELSE
      LET r2 == [r1 EXCEPT !.messageCount = @ + 1]
          ext == _extractTextContent(line.content)
      IN
      IF ext.throws THEN [r2 EXCEPT !.parseErrorCount = @ + 1]
      ELSE
        LET r3 == IF ext.text # Empty
                  THEN [r2 EXCEPT !.contentParts = Append(@, Slice(ext.text, 2000))]
                  ELSE r2
            r4 == IF line.type = "assistant" /\ line.usage
                  THEN [r3 EXCEPT !.input = @ + OrZero(line.input),
                                  !.output = @ + OrZero(line.output)]
                  ELSE r3
            r5 == IF ~Falsy(line.model)
                  THEN [r4 EXCEPT !.modelCounts = Bump(@, line.model)] ELSE r4
            names == IF line.type = "assistant" /\ ~FalsyContent(line.content)
                     THEN _extractToolNames(line.content) ELSE <<>>
        IN [r5 EXCEPT !.tools = BumpAll(@, names), !.toolTotal = @ + Len(names)]

RECURSIVE PrimaryModel_LastWins(_, _, _)
\* a count that equals the largest so far wins as well (C31)
PrimaryModel_LastWins(counts, maxCount, best) ==
  IF counts = <<>> THEN best
  ELSE IF Head(counts)[2] >= maxCount
       THEN PrimaryModel_LastWins(Tail(counts), Head(counts)[2], Head(counts)[1])
       ELSE PrimaryModel_LastWins(Tail(counts), maxCount, best)

RECURSIVE PrimaryModel(_, _, _)
\* the loop over Object.entries(modelCounts): the first strictly larger count wins
PrimaryModel(counts, maxCount, best) ==
  IF counts = <<>> THEN best
  ELSE IF Head(counts)[2] > maxCount
       THEN PrimaryModel(Tail(counts), Head(counts)[2], Head(counts)[1])
       ELSE PrimaryModel(Tail(counts), maxCount, best)

\* the total is left as it was initialised (C16)
OnClose_NoTotal(r) ==
  [r EXCEPT !.primaryModel = PrimaryModel(r.modelCounts, 0, Null),
            !.searchableContent = Slice(Join(r.contentParts, <<"\n">>), 100000)]

\* the rl.on('close') handler
OnClose(r) ==
  [r EXCEPT !.total = r.input + r.output,
            !.primaryModel = PrimaryModel(r.modelCounts, 0, Null),
            !.searchableContent = Slice(Join(r.contentParts, <<"\n">>), 100000)]

RECURSIVE FoldLines(_, _)
FoldLines(r, lines) ==
  IF lines = <<>> THEN r ELSE FoldLines(OnLine(r, Head(lines)), Tail(lines))

\* the ParseResult of a file that is read to its end without a stream error
_parseJsonlStreaming(lines) == OnClose(FoldLines(ParseStart, lines))

(***************************************************************************)
(* Indexer helpers                                                          *)
(***************************************************************************)
\* path.join(claudeDir, 'projects') for claudeDir = '/c'
projectsDir == << Empty, <<"c">>, <<"projects">> >>

\* String.prototype.replace(sub, ''): the first occurrence of the atom is removed
RemoveFirst(s, atom) ==
  LET k == IndexOf(s, atom) IN
  IF k < 0 THEN s ELSE SubSeq(s, 1, k) \o SubSeq(s, k + 2, Len(s))

\* String.prototype.endsWith('.jsonl')
EndsWithJsonl(name) == Len(name) > 0 /\ name[Len(name)] = ".jsonl"

\* no path is taken for a subagent's (C17)
_detectSubagent_Never(filePath) == [isSubagent |-> FALSE, parentId |-> Null]

\* Indexer._detectSubagent
_detectSubagent(filePath) ==
  LET subagentIdx == IndexOf(filePath, <<"subagents">>) IN
  IF subagentIdx # 0 - 1 /\ subagentIdx > 0
  THEN [isSubagent |-> TRUE, parentId |-> At(filePath, subagentIdx - 1)]
  ELSE [isSubagent |-> FALSE, parentId |-> Null]

\* the segments the model has that /^[a-f0-9-]{8,}$/i matches
UuidLike == {<<"abc123-def456">>}
\* Indexer._detectSubagent writes its warning
_detectSubagentWarns(filePath) ==
  /\ _detectSubagent(filePath).isSubagent
  /\ _detectSubagent(filePath).parentId \notin UuidLike

\* Indexer._extractProjectFromPath
_extractProjectFromPath(filePath) ==
  LET relativePath == IF Len(projectsDir) <= Len(filePath)
                         /\ SubSeq(filePath, 1, Len(projectsDir)) = projectsDir
                      THEN SubSeq(filePath, Len(projectsDir) + 1, Len(filePath))
                      ELSE filePath
      parts == SelectSeq(relativePath, LAMBDA seg : seg # Empty)
  IN IF Len(parts) > 0
     THEN IF Len(parts[1]) > 0 /\ parts[1][1] = "-" THEN Tail(parts[1]) ELSE parts[1]
     ELSE <<"Unknown">>

\* the id without the parent prefix (C5)
SessionId_Unprefixed(filePath) == RemoveFirst(Basename(filePath), ".jsonl")

\* the id computed by Indexer._indexFile
SessionId(filePath) ==
  LET d == _detectSubagent(filePath)
      baseId == RemoveFirst(Basename(filePath), ".jsonl")
  IN IF d.isSubagent /\ ~Falsy(d.parentId) THEN d.parentId \o <<"_">> \o baseId ELSE baseId

\* the conversation object built by Indexer._indexFile from the stat result and
\* the ParseResult
Conversation(filePath, fileStats, parseResult) ==
  LET d == _detectSubagent(filePath) IN
  [id |-> SessionId(filePath),
   filePath |-> filePath,
   filename |-> Basename(filePath),
   project |-> IF ~FalsyPath(parseResult.cwd) THEN Basename(parseResult.cwd)
               ELSE _extractProjectFromPath(filePath),
   cwd |-> parseResult.cwd,
   messageCount |-> parseResult.messageCount,
   fileSize |-> fileStats.size,
   lastModified |-> fileStats.mtime,
   created |-> fileStats.birthtime,
   tokenUsage |-> [total |-> parseResult.total, input |-> parseResult.input,
                   output |-> parseResult.output],
   primaryModel |-> parseResult.primaryModel,
   tools |-> parseResult.tools,
   isSubagent |-> d.isSubagent,
   parentId |-> d.parentId]

(***************************************************************************)
(* Store: DatabaseManager.  A database is a record of its four tables:      *)
(* conversations and tool_usage and file_index are sets of rows,            *)
(* conversation_fts (no key, no constraint) is a bag of rows.  The column   *)
(* indexed_at and the surrogate keys are left out.  foreign_keys is the     *)
(* connection's foreign-key enforcement, a property of the SQLite build.    *)
(***************************************************************************)
\* `date?.getTime() || now` for an epoch-millisecond value
TimeOrNow(t, now) == IF t = Undef \/ t = 0 THEN now ELSE t

\* the conversations row written by insertConv.run
ConversationRow(conversation, now) ==
  [id |-> conversation.id,
   file_path |-> conversation.filePath,
   filename |-> conversation.filename,
   project |-> OrNull(conversation.project),
   message_count |-> OrZero(conversation.messageCount),
   file_size |-> OrZero(conversation.fileSize),
   last_modified |-> TimeOrNow(conversation.lastModified, now),
   created |-> TimeOrNow(conversation.created, now),
   tokens_total |-> OrZero(conversation.tokenUsage.total),
   tokens_input |-> OrZero(conversation.tokenUsage.input),
   tokens_output |-> OrZero(conversation.tokenUsage.output),
   primary_model |-> OrNull(conversation.primaryModel),
   is_subagent |-> conversation.isSubagent,
   parent_id |-> OrNull(conversation.parentId),
   cwd |-> IF FalsyPath(conversation.cwd) THEN NullPath ELSE conversation.cwd]

\* the file_index row written by updateFileIndex.run
FileIndexRow(conversation, now) ==
  [file_path |-> conversation.filePath,
   mtime |-> TimeOrNow(conversation.lastModified, now),
   size |-> OrZero(conversation.fileSize)]

\* the tool_usage rows written by the insertTool.run loop
ToolRows(conversation) ==
  {[conversation_id |-> conversation.id, tool_name |-> conversation.tools[i][1],
    call_count |-> conversation.tools[i][2]] : i \in 1..Len(conversation.tools)}

\* the conversation_fts row written by insertFts.run
FtsRow(conversation, searchableContent) ==
  [conversation_id |-> conversation.id, content |-> searchableContent,
   project |-> OrEmpty(conversation.project)]

\* DELETE FROM conversation_fts WHERE conversation_id = ?
FtsDelete(fts, id) ==
  LET keep == {r \in DOMAIN fts : r.conversation_id # id} IN [r \in keep |-> fts[r]]

\* DELETE FROM tool_usage WHERE conversation_id = ?
ToolsDelete(tools, id) == {t \in tools : t.conversation_id # id}

\* the rows INSERT OR REPLACE INTO conversations deletes: those that conflict
\* with the new row on the primary key or on UNIQUE(file_path)
ReplacedRows(convs, row) == {r \in convs : r.id = row.id \/ r.file_path = row.file_path}

\* ON DELETE CASCADE of tool_usage.conversation_id, when the build enforces
\* foreign keys
Cascade(db, gone) ==
  IF db.foreign_keys
  THEN {t \in db.tool_usage : t.conversation_id \notin {r.id : r \in gone}}
  ELSE db.tool_usage

\* a statement of the upsert transaction raises (NOT NULL file_path, filename)
UpsertThrows(conversation) ==
  Falsy(conversation.filePath) \/ conversation.filename = Null

\* upsertConversation without the INSERT OR REPLACE INTO file_index (C8)
upsertConversation_NoTracking(db, conversation, searchableContent, now) ==
  IF UpsertThrows(conversation) THEN db
  ELSE
    LET row == ConversationRow(conversation, now)
        gone == ReplacedRows(db.conversations, row)
        fts1 == FtsDelete(db.conversation_fts, conversation.id)
    IN [db EXCEPT
          !.conversations = (db.conversations \ gone) \cup {row},
          !.conversation_fts =
             IF ~Falsy(searchableContent) /\ ~IsBlank(searchableContent)
             THEN fts1 (+) SetToBag({FtsRow(conversation, searchableContent)})
             ELSE fts1,
          !.tool_usage = ToolsDelete(Cascade(db, gone), conversation.id)
                           \cup ToolRows(conversation)]

\* DatabaseManager.upsertConversation: the committed transaction, or the
\* database as it was when the transaction rolls back
upsertConversation(db, conversation, searchableContent, now) ==
  IF UpsertThrows(conversation) THEN db
  ELSE
    LET row == ConversationRow(conversation, now)
        gone == ReplacedRows(db.conversations, row)
        fts1 == FtsDelete(db.conversation_fts, conversation.id)
        path == conversation.filePath
    IN [db EXCEPT
          !.conversations = (db.conversations \ gone) \cup {row},
          !.conversation_fts =
             IF ~Falsy(searchableContent) /\ ~IsBlank(searchableContent)
             THEN fts1 (+) SetToBag({FtsRow(conversation, searchableContent)})
             ELSE fts1,
          !.file_index = {f \in db.file_index : f.file_path # path}
                           \cup {FileIndexRow(conversation, now)},
          !.tool_usage = ToolsDelete(Cascade(db, gone), conversation.id)
                           \cup ToolRows(conversation)]

\* DatabaseManager.needsIndexing
needsIndexing(db, filePath, mtime, size) ==
  LET rows == {f \in db.file_index : f.file_path = filePath} IN
  IF rows = {} THEN TRUE
  ELSE LET row == CHOOSE f \in rows : TRUE IN row.mtime # mtime \/ row.size # size

\* DatabaseManager.getIndexedFilePaths
getIndexedFilePaths(db) == {f.file_path : f \in db.file_index}

\* the three DELETE statements shared by removeConversation and removeFile
DeleteConversation(db, id) ==
  LET gone == {r \in db.conversations : r.id = id} IN
  [db EXCEPT !.conversation_fts = FtsDelete(db.conversation_fts, id),
             !.tool_usage = ToolsDelete(Cascade(db, gone), id),
             !.conversations = db.conversations \ gone]

\* DatabaseManager.removeConversation
removeConversation(db, id) == DeleteConversation(db, id)

\* ClearParent without the UPDATE: the children keep the removed id (C4)
ClearParent_Kept(convs, id) == convs

\* UPDATE conversations SET parent_id = NULL WHERE parent_id = ?
ClearParent(convs, id) ==
  {IF r.parent_id = id THEN [r EXCEPT !.parent_id = Null] ELSE r : r \in convs}

\* removeFile without the DELETE on conversation_fts (C3)
removeFile_KeepsFts(db, filePath) ==
  LET found == {r \in db.conversations : r.file_path = filePath}
      db1 == IF found = {} THEN db
             ELSE LET conv == CHOOSE r \in found : TRUE IN
                  [db EXCEPT !.conversations = ClearParent(db.conversations, conv.id) \ found,
                             !.tool_usage = ToolsDelete(db.tool_usage, conv.id)]
  IN [db1 EXCEPT !.file_index = {f \in db1.file_index : f.file_path # filePath}]

\* DatabaseManager.removeFile
removeFile(db, filePath) ==
  LET found == {r \in db.conversations : r.file_path = filePath}
      db1 == IF found = {} THEN db
             ELSE LET conv == CHOOSE r \in found : TRUE IN
                  DeleteConversation(
                    [db EXCEPT !.conversations = ClearParent(db.conversations, conv.id)],
                    conv.id)
  IN [db1 EXCEPT !.file_index = {f \in db1.file_index : f.file_path # filePath}]

RECURSIVE SumCounts(_, _)
SumCounts(bag, rows) ==
  IF rows = {} THEN 0
  ELSE LET r == CHOOSE x \in rows : TRUE IN bag[r] + SumCounts(bag, rows \ {r})

\* UPDATE on a bag of rows: every row r becomes f[r]
BagUpdate(bag, f) ==
  LET img == {f[r] : r \in DOMAIN bag}
  IN [t \in img |-> SumCounts(bag, {r \in DOMAIN bag : f[r] = t})]

\* the encoded folder of a row in resolveEncodedProjectNames: the segment after
\* the first 'projects' segment, Null when the row is skipped
EncodedFolder(file_path) ==
  LET projectsIdx == IndexOf(file_path, <<"projects">>) IN
  IF projectsIdx = 0 - 1 \/ Len(file_path) <= projectsIdx + 1 THEN Null
  ELSE At(file_path, projectsIdx + 1)

\* folderData: the folders, and per folder its rows and its set of cwds
Folders(convs) == {EncodedFolder(r.file_path) : r \in convs} \ {Null}
FolderRows(convs, folder) == {r \in convs : EncodedFolder(r.file_path) = folder}
FolderCwds(convs, folder) ==
  {r.cwd : r \in {x \in FolderRows(convs, folder) : ~FalsyPath(x.cwd)}}

\* the values cwdArray[0] can take after the sort by length: SELECT without
\* ORDER BY leaves the order among the cwds of the least length open
ShortestCwds(cwds) == {c \in cwds : \A d \in cwds : PathLength(c) <= PathLength(d)}

\* the folders the transaction's loop does not `continue` past
ResolvableFolders(convs) == {f \in Folders(convs) : FolderCwds(convs, f) # {}}

\* every way the loop can pick rootCwd, one per folder that has a cwd
RootChoices(convs) ==
  {pick \in [ResolvableFolders(convs) -> UNION {FolderCwds(convs, f) : f \in Folders(convs)}] :
     \A f \in ResolvableFolders(convs) : pick[f] \in ShortestCwds(FolderCwds(convs, f))}

\* a resolution that updates nothing (C7)
ResolvedProject_Unchanged(convs, pick, r) == r.project

\* the project a row gets in the transaction of resolveEncodedProjectNames
ResolvedProject(convs, pick, r) ==
  LET folder == EncodedFolder(r.file_path) IN
  IF folder = Null \/ folder \notin DOMAIN pick THEN r.project
  ELSE LET canonicalName == Basename(pick[folder]) IN
       IF Falsy(canonicalName) THEN r.project ELSE canonicalName

\* resolveEncodedProjectNames counting every session of a folder it has a
\* name for (C30)
resolveEncodedProjectNames_CountsAll(db, pick) ==
  LET convs == db.conversations
      named == {r \in convs : EncodedFolder(r.file_path) \in DOMAIN pick
                                 /\ ~Falsy(Basename(pick[EncodedFolder(r.file_path)]))}
      canonical(r) == Basename(pick[EncodedFolder(r.file_path)])
      ftsMap == [f \in DOMAIN db.conversation_fts |->
                   IF \E r \in named : r.id = f.conversation_id
                   THEN [f EXCEPT !.project =
                           canonical(CHOOSE r \in named : r.id = f.conversation_id)]
                   ELSE f]
  IN [db |-> [db EXCEPT
                !.conversations =
                   {IF r \in named THEN [r EXCEPT !.project = canonical(r)] ELSE r : r \in convs},
                !.conversation_fts = BagUpdate(db.conversation_fts, ftsMap)],
      resolved |-> Cardinality(named),
      folders |-> Cardinality({EncodedFolder(r.file_path) : r \in named})]

\* DatabaseManager.resolveEncodedProjectNames for one choice of root cwds:
\* the database after the transaction and the counts returned
resolveEncodedProjectNames(db, pick) ==
  LET convs == db.conversations
      changed == {r \in convs : ResolvedProject(convs, pick, r) # r.project}
      newProject == [id \in {r.id : r \in changed} |->
                       ResolvedProject(convs, pick, CHOOSE r \in changed : r.id = id)]
      ftsMap == [r \in DOMAIN db.conversation_fts |->
                   IF r.conversation_id \in DOMAIN newProject
                   THEN [r EXCEPT !.project = newProject[r.conversation_id]] ELSE r]
  IN [db |-> [db EXCEPT
                !.conversations =
                   {IF r.id \in DOMAIN newProject
                    THEN [r EXCEPT !.project = newProject[r.id]] ELSE r : r \in convs},
                !.conversation_fts = BagUpdate(db.conversation_fts, ftsMap)],
      resolved |-> Cardinality(changed),
      folders |-> Cardinality({EncodedFolder(r.file_path) : r \in changed})]

(***************************************************************************)
(* The source tree: the log files the model lets exist under projectsDir,   *)
(* and the versions (stat result and lines) a file can have.                *)
(***************************************************************************)
FolderA == <<"-", "u", "-", "p">>
FolderB == <<"-", "u", "-", "q">>
\* a top-level session, and a top-level file of the same name in another folder
P1 == projectsDir \o <<FolderA, <<"s1", ".jsonl">>>>
P2 == projectsDir \o <<FolderB, <<"s1", ".jsonl">>>>
\* two subagent files of the same name under two parents
P3 == projectsDir \o <<FolderA, <<"s1">>, <<"subagents">>, <<"agent", ".jsonl">>>>
P4 == projectsDir \o <<FolderA, <<"s2">>, <<"subagents">>, <<"agent", ".jsonl">>>>
Paths == {P1, P2, P3, P4}

CwdP == <<Empty, <<"u">>, <<"p">>>>
CwdSrc == CwdP \o <<<<"src">>>>
CwdRoot == <<Empty, Empty>>

UserHi(cwd) == JsonLine("user", cwd, StrContent(<<"h", "i">>))
AssistantTools ==
  [JsonLine("assistant", NullPath,
            ArrContent(<<TextBlock(<<"o", "k">>), ToolBlock(<<"Read">>), ToolBlock(<<"Read">>)>>))
     EXCEPT !.usage = TRUE, !.input = 1, !.output = 2, !.model = <<"m1">>]

\* only invalid JSON, epoch mtime
VA == [mtime |-> 0, size |-> 1, birthtime |-> 1, lines |-> <<GarbageLine>>]
\* cwd at the project root, text and two tool calls
VB == [mtime |-> 1, size |-> 2, birthtime |-> 1, lines |-> <<UserHi(CwdP), AssistantTools>>]
\* cwd in a subdirectory, a single tool_use block, no text
VC == [mtime |-> 2, size |-> 2, birthtime |-> 1,
       lines |-> <<JsonLine("assistant", CwdSrc, ObjContent(ToolBlock(<<"Write">>)))>>]
\* cwd "/", white-space text only
VD == [mtime |-> 1, size |-> 3, birthtime |-> 1,
       lines |-> <<BlankLine, JsonLine("user", CwdRoot, StrContent(<<" ">>))>>]
\* cwd "/" and text
VE == [mtime |-> 2, size |-> 1, birthtime |-> 1, lines |-> <<UserHi(CwdRoot)>>]
\* cwd in a subdirectory and text
VF == [mtime |-> 2, size |-> 3, birthtime |-> 1, lines |-> <<UserHi(CwdSrc)>>]
Versions == {VA, VB, VC, VD, VE, VF}
\* the versions the model lets each file take
VersionsOf(p) ==
  IF p = P1 THEN {VA, VB, VD}
  ELSE IF p = P2 THEN {VB}
  ELSE IF p = P3 THEN {VA, VC}
  ELSE {VC}
NoFile == [mtime |-> Undef, size |-> Undef, birthtime |-> Undef, lines |-> <<>>]

\* the values Date.now() returns in the model
Clock == {8, 9}

\* how many external events occur: the host application creates, rewrites or
\* deletes a file, the watcher calls the engine, an I/O operation fails
MaxEvents == 3

(***************************************************************************)
(* State                                                                    *)
(***************************************************************************)
VARIABLES
  conversations,     \* table conversations
  conversation_fts,  \* table conversation_fts
  tool_usage,        \* table tool_usage
  file_index,        \* table file_index
  foreign_keys,      \* whether the connection enforces foreign keys
  disk,              \* the source tree: path -> version or NoFile
  pc,                \* where runFullIndex is: idle, walked, loop, parse
  files,             \* the files found by _findJsonlFiles
  todo,              \* the files the loop has not reached yet
  indexedPaths,      \* runFullIndex's set indexedPaths
  cur,               \* the file being indexed and its fs.stat result
  stats,             \* runFullIndex's stats
  events,            \* external events so far
  last,              \* the last store operation and its arguments
  quiet,             \* a pass has completed and nothing has happened since
  rerun,             \* what the running or last pass started from: whether
                     \* nothing had happened since the pass before, that
                     \* pass's errors and files, the paths tracked at the
                     \* start, the file whose session removeConversation
                     \* removed right before, the files whose turn raised
                     \* and those upserted from a read that failed, and
                     \* whether the host has asked the pass to stop
  reader,            \* one call of _parseJsonlStreaming: the lines of the file,
                     \* how many were delivered, the accumulator, the promise
  answer,            \* the last query of the store and the list it returned
  grouping,          \* the calls of _groupSubagentsUnderParents: the list
                     \* given, the stored sessions, whether the database
                     \* backend is in use, and the list each call returned
  schema,            \* the columns and indexes of table conversations that
                     \* the migrations add, and the calls of initialize()
  databaseBackend    \* the DatabaseBackend object: its fields db, indexer and
                     \* isInitialized, the connection of its DatabaseManager,
                     \* and the last call made on it with its outcome

storeVars == <<conversations, conversation_fts, tool_usage, file_index, foreign_keys>>
passVars == <<pc, files, todo, indexedPaths, cur, stats>>
vars == <<conversations, conversation_fts, tool_usage, file_index, foreign_keys, disk,
          pc, files, todo, indexedPaths, cur, stats, events, last, quiet, rerun,
          reader, answer, grouping, schema, databaseBackend>>
callVars == <<reader, answer, grouping, schema, databaseBackend>>

\* the database as one value
Store ==
  [conversations |-> conversations, conversation_fts |-> conversation_fts,
   tool_usage |-> tool_usage, file_index |-> file_index, foreign_keys |-> foreign_keys,
   fts_malformed |-> FALSE]
\* the database with an FTS index that the engine cannot read
Malformed(db) == [db EXCEPT !.fts_malformed = TRUE]

\* the database becomes db
Commit(db) ==
  /\ conversations' = db.conversations
  /\ conversation_fts' = db.conversation_fts
  /\ tool_usage' = db.tool_usage
  /\ file_index' = db.file_index
  /\ foreign_keys' = db.foreign_keys

NoConversation ==
  Conversation(<<>>, [mtime |-> Undef, size |-> Undef, birthtime |-> Undef], ParseStart)
NoCur == [path |-> <<>>, fileStats |-> NoFile]
ZeroStats ==
  [filesScanned |-> 0, filesIndexed |-> 0, filesSkipped |-> 0, filesRemoved |-> 0,
   errors |-> 0, projectNamesResolved |-> 0]
NoRerun ==
  [clean |-> FALSE, prevErrors |-> 0, prevFiles |-> {}, tracked |-> {}, removed |-> <<>>,
   failed |-> {}, partial |-> {}, cancelled |-> FALSE, statFailed |-> {},
   prevFailed |-> {}]
\* no parser call and no query have been made
NoReader ==
  [lines |-> <<>>, read |-> 0, result |-> ParseStart, promise |-> "none", streamError |-> FALSE]
NoAnswer ==
  [op |-> "none", query |-> <<>>, options |-> <<>>, safeQuery |-> <<>>, rows |-> <<>>,
   ranked |-> FALSE, snippets |-> FALSE, limit |-> 0, raised |-> FALSE, malformed |-> FALSE]
\* the schema after an initialize() in which nothing failed
MigratedColumns == {"is_subagent", "parent_id", "cwd"}
MigratedIndexes == {"idx_conversations_parent", "idx_conversations_subagent"}
Migrated ==
  [columns |-> MigratedColumns, indexes |-> MigratedIndexes, inits |-> 1, clean |-> TRUE,
   logged |-> {}, raised |-> FALSE]
\* the DatabaseBackend after an initialize() that succeeded: connection is
\* the `db` field of the DatabaseManager, a handle or null
Initialized ==
  [db |-> "DatabaseManager", indexer |-> "Indexer", isInitialized |-> TRUE,
   connection |-> "open", initializing |-> FALSE, calls |-> 0,
   op |-> "none", outcome |-> "none", before |-> TRUE]
NoGrouping == [input |-> <<>>, stored |-> {}, backend |-> FALSE, outputs |-> <<>>]
\* the record kept in `last`
Op(name, path, ids, conversation, text) ==
  [op |-> name, path |-> path, ids |-> ids, conversation |-> conversation, text |-> text]
NoOp == Op("none", <<>>, {}, NoConversation, Empty)

Init ==
  /\ conversations = {} /\ conversation_fts = EmptyBag /\ tool_usage = {}
  /\ file_index = {}
  /\ foreign_keys = TRUE
  /\ disk = [p \in Paths |-> NoFile]
  /\ pc = "idle" /\ files = {} /\ todo = {} /\ indexedPaths = {} /\ cur = NoCur
  /\ stats = ZeroStats
  /\ events = 0
  /\ last = NoOp /\ quiet = FALSE
  /\ rerun = NoRerun
  /\ reader = NoReader /\ answer = NoAnswer /\ grouping = NoGrouping
  /\ schema = Migrated /\ databaseBackend = Initialized

\* the locals of a returned runFullIndex and the record of the last store
\* operation are gone once something else happens
Forget ==
  /\ files' = {} /\ todo' = {} /\ indexedPaths' = {} /\ cur' = NoCur
  /\ stats' = ZeroStats
  /\ rerun' = NoRerun
  /\ quiet' = FALSE

(***************************************************************************)
(* The host application changes the source tree                             *)
(***************************************************************************)
WriteFile(p, v) ==
  /\ pc = "idle" /\ events < MaxEvents /\ v \in VersionsOf(p) /\ disk[p] # v
  /\ disk' = [disk EXCEPT ![p] = v]
  /\ events' = events + 1
  /\ last' = NoOp
  /\ Forget
  /\ UNCHANGED <<storeVars, pc>>
  /\ UNCHANGED callVars

DeleteFile(p) ==
  /\ pc = "idle" /\ events < MaxEvents /\ disk[p] # NoFile
  /\ disk' = [disk EXCEPT ![p] = NoFile]
  /\ events' = events + 1
  /\ last' = NoOp
  /\ Forget
  /\ UNCHANGED <<storeVars, pc>>
  /\ UNCHANGED callVars

(***************************************************************************)
(* Indexer.runFullIndex.  The array `files` is processed in the order       *)
(* readdir gave, which is any order: the loop takes any file of todo next.  *)
(***************************************************************************)
\* the .jsonl files of the tree
JsonlFiles == {p \in Paths : disk[p] # NoFile /\ EndsWithJsonl(Basename(p))}

\* _findJsonlFiles: entries whose stat raises are logged and left out
Discover(denied) ==
  /\ pc = "idle"
  /\ denied \subseteq JsonlFiles /\ Cardinality(denied) <= MaxEvents - events
  /\ files' = JsonlFiles \ denied
  /\ events' = events + Cardinality(denied)
  /\ stats' = [ZeroStats EXCEPT !.filesScanned = Cardinality(files')]
  /\ pc' = "walked"
  /\ rerun' = [clean |-> quiet, prevErrors |-> stats.errors, prevFiles |-> files,
               tracked |-> {},
               removed |-> IF last.op = "removeConversation" THEN last.path ELSE <<>>,
               failed |-> {}, partial |-> {}, cancelled |-> FALSE, statFailed |-> {},
               prevFailed |-> rerun.failed]
  /\ quiet' = FALSE
  /\ todo' = {} /\ indexedPaths' = {}
  /\ last' = NoOp
  /\ UNCHANGED <<storeVars, disk, cur>>
  /\ UNCHANGED callVars

\* const indexedPaths = this.db.getIndexedFilePaths()
Plan ==
  /\ pc = "walked"
  /\ indexedPaths' = getIndexedFilePaths(Store)
  /\ todo' = files
  /\ pc' = "loop"
  /\ rerun' = [rerun EXCEPT !.tracked = getIndexedFilePaths(Store)]
  /\ UNCHANGED <<storeVars, disk, files, cur, stats, events, last, quiet>>
  /\ UNCHANGED callVars

\* await fs.stat(filePath) raises: the catch block counts an error
StatFail(p) ==
  /\ pc = "loop" /\ p \in todo
  /\ disk[p] = NoFile \/ events < MaxEvents
  /\ events' = IF disk[p] = NoFile THEN events ELSE events + 1
  /\ stats' = [stats EXCEPT !.errors = @ + 1]
  /\ todo' = todo \ {p}
  /\ rerun' = [rerun EXCEPT !.failed = @ \cup {p}, !.statFailed = @ \cup {p}]
  /\ UNCHANGED <<storeVars, disk, pc, files, indexedPaths, cur, last, quiet>>
  /\ UNCHANGED callVars

\* the skipped file is not counted (C34)
SkipFile_Uncounted(p) ==
  /\ pc = "loop" /\ p \in todo /\ disk[p] # NoFile
  /\ ~needsIndexing(Store, p, disk[p].mtime, disk[p].size)
  /\ indexedPaths' = indexedPaths \ {p}
  /\ todo' = todo \ {p}
  /\ UNCHANGED <<storeVars, disk, pc, files, cur, events, last, quiet, rerun, stats>>
  /\ UNCHANGED callVars

\* stat succeeds and needsIndexing is false
SkipFile(p) ==
  /\ pc = "loop" /\ p \in todo /\ disk[p] # NoFile
  /\ ~needsIndexing(Store, p, disk[p].mtime, disk[p].size)
  /\ indexedPaths' = indexedPaths \ {p}
  /\ stats' = [stats EXCEPT !.filesSkipped = @ + 1]
  /\ todo' = todo \ {p}
  /\ UNCHANGED <<storeVars, disk, pc, files, cur, events, last, quiet, rerun>>
  /\ UNCHANGED callVars

\* stat succeeds and needsIndexing is true: _indexFile starts to read the file
StatFile(p) ==
  /\ pc = "loop" /\ p \in todo /\ disk[p] # NoFile
  /\ needsIndexing(Store, p, disk[p].mtime, disk[p].size)
  /\ indexedPaths' = indexedPaths \ {p}
  /\ cur' = [path |-> p, fileStats |-> disk[p]]
  /\ pc' = "parse"
  /\ UNCHANGED <<storeVars, disk, files, todo, stats, events, last, quiet, rerun>>
  /\ UNCHANGED callVars

\* _indexFile(filePath, fileStats) when the read stream delivers the first k
\* lines of the file: all of them when it ends, fewer when it raises, and then
\* cleanup() closes the readline interface, whose 'close' handler resolves the
\* promise with the result so far before reject(err) is reached
IndexedDb(db, filePath, fileStats, now, k) ==
  LET parseResult == _parseJsonlStreaming(SubSeq(disk[filePath].lines, 1, k))
  IN upsertConversation(db, Conversation(filePath, fileStats, parseResult),
                        parseResult.searchableContent, now)

UpsertOp(filePath, fileStats, k) ==
  LET parseResult == _parseJsonlStreaming(SubSeq(disk[filePath].lines, 1, k))
      conversation == Conversation(filePath, fileStats, parseResult)
  IN Op("upsert", filePath, {}, conversation, parseResult.searchableContent)

\* how many lines a read stream can deliver
ReadCounts == UNION {0..Len(v.lines) : v \in Versions}

\* the file is read to its end, parsed and upserted
IndexFile(now) ==
  /\ pc = "parse" /\ disk[cur.path] # NoFile
  /\ Commit(IndexedDb(Store, cur.path, cur.fileStats, now, Len(disk[cur.path].lines)))
  /\ last' = UpsertOp(cur.path, cur.fileStats, Len(disk[cur.path].lines))
  /\ stats' = [stats EXCEPT !.filesIndexed = @ + 1]
  /\ todo' = todo \ {cur.path}
  /\ cur' = NoCur
  /\ pc' = "loop"
  /\ UNCHANGED <<disk, files, indexedPaths, events, quiet, rerun>>
  /\ UNCHANGED callVars

\* the read stream raises (at open or while reading) after k lines
IndexFileStreamError(k, now) ==
  /\ pc = "parse" /\ disk[cur.path] # NoFile /\ events < MaxEvents
  /\ k < Len(disk[cur.path].lines)
  /\ Commit(IndexedDb(Store, cur.path, cur.fileStats, now, k))
  /\ last' = [UpsertOp(cur.path, cur.fileStats, k) EXCEPT !.op = "upsertAfterStreamError"]
  /\ stats' = [stats EXCEPT !.filesIndexed = @ + 1]
  /\ events' = events + 1
  /\ todo' = todo \ {cur.path}
  /\ cur' = NoCur
  /\ pc' = "loop"
  /\ rerun' = [rerun EXCEPT !.partial = @ \cup {cur.path}]
  /\ UNCHANGED <<disk, files, indexedPaths, quiet>>
  /\ UNCHANGED callVars

\* the failed upsert leaves the tracking row of the file behind (C36)
IndexFileFail_TracksFile ==
  /\ pc = "parse"
  /\ disk[cur.path] = NoFile \/ events < MaxEvents
  /\ events' = IF disk[cur.path] = NoFile THEN events ELSE events + 1
  /\ stats' = [stats EXCEPT !.errors = @ + 1]
  /\ rerun' = [rerun EXCEPT !.failed = @ \cup {cur.path}]
  /\ todo' = todo \ {cur.path}
  /\ cur' = NoCur
  /\ pc' = "loop"
  /\ file_index' = {f \in file_index : f.file_path # cur.path}
                      \cup {[file_path |-> cur.path, mtime |-> cur.fileStats.mtime,
                              size |-> cur.fileStats.size]}
  /\ UNCHANGED <<conversations, conversation_fts, tool_usage, foreign_keys>>
  /\ UNCHANGED <<disk, files, indexedPaths, last, quiet>>
  /\ UNCHANGED callVars

\* _indexFile raises: a statement of upsertConversation fails in the database
IndexFileFail ==
  /\ pc = "parse"
  /\ disk[cur.path] = NoFile \/ events < MaxEvents
  /\ events' = IF disk[cur.path] = NoFile THEN events ELSE events + 1
  /\ stats' = [stats EXCEPT !.errors = @ + 1]
  /\ rerun' = [rerun EXCEPT !.failed = @ \cup {cur.path}]
  /\ todo' = todo \ {cur.path}
  /\ cur' = NoCur
  /\ pc' = "loop"
  /\ UNCHANGED <<storeVars, disk, files, indexedPaths, last, quiet>>
  /\ UNCHANGED callVars

\* the ids of the sessions removeFile finds for the paths
IdsAt(convs, paths) == {r.id : r \in {x \in convs : x.file_path \in paths}}

RECURSIVE RemoveFiles(_, _)
\* for (const deletedPath of indexedPaths) this.db.removeFile(deletedPath)
RemoveFiles(db, paths) ==
  IF paths = {} THEN db
  ELSE LET p == CHOOSE x \in paths : TRUE IN RemoveFiles(removeFile(db, p), paths \ {p})

\* the end of runFullIndex: deletions, then resolveEncodedProjectNames
FinishPass ==
  /\ pc = "loop" /\ todo = {}
  /\ LET db1 == RemoveFiles(Store, indexedPaths) IN
     \E pick \in RootChoices(db1.conversations) :
       LET res == resolveEncodedProjectNames(db1, pick) IN
       /\ Commit(res.db)
       /\ stats' = [stats EXCEPT !.filesRemoved = @ + Cardinality(indexedPaths),
                                 !.projectNamesResolved = res.resolved]
  /\ last' = Op("pass", <<>>, IdsAt(conversations, indexedPaths), NoConversation, Empty)
  /\ pc' = "idle"
  /\ quiet' = TRUE
  /\ UNCHANGED <<disk, files, todo, indexedPaths, cur, events, rerun>>
  /\ UNCHANGED callVars

(***************************************************************************)
(* The operations the watcher collaborator calls                            *)
(***************************************************************************)
\* Indexer.indexSingleFile returns {success: true}
IndexSingleFile(p, now) ==
  /\ pc = "idle" /\ events < MaxEvents /\ disk[p] # NoFile
  /\ Commit(IndexedDb(Store, p, disk[p], now, Len(disk[p].lines)))
  /\ last' = UpsertOp(p, disk[p], Len(disk[p].lines))
  /\ events' = events + 1
  /\ Forget
  /\ UNCHANGED <<disk, pc>>
  /\ UNCHANGED callVars

\* Indexer.indexSingleFile when the read stream raises after k lines:
\* cleanup() closes the reader, 'close' resolves the promise with the lines
\* read so far, _indexFile upserts them and {success: true} is returned
IndexSingleFileStreamError(p, k, now) ==
  /\ pc = "idle" /\ events < MaxEvents /\ disk[p] # NoFile
  /\ k < Len(disk[p].lines)
  /\ Commit(IndexedDb(Store, p, disk[p], now, k))
  /\ last' = [UpsertOp(p, disk[p], k) EXCEPT !.op = "upsertAfterStreamError"]
  /\ events' = events + 1
  /\ Forget
  /\ UNCHANGED <<disk, pc>>
  /\ UNCHANGED callVars

\* Indexer.indexSingleFile returns {success: false, ...}: fs.stat or
\* upsertConversation has raised
IndexSingleFileFail(p) ==
  /\ pc = "idle" /\ events < MaxEvents
  /\ last' = Op("indexFailed", p, {}, NoConversation, Empty)
  /\ events' = events + 1
  /\ Forget
  /\ UNCHANGED <<storeVars, disk, pc>>
  /\ UNCHANGED callVars

\* DatabaseBackend.removeFile
WatcherRemoveFile(p) ==
  /\ pc = "idle" /\ events < MaxEvents
  /\ Commit(removeFile(Store, p))
  /\ last' = Op("removeFile", p, IdsAt(conversations, {p}), NoConversation, Empty)
  /\ events' = events + 1
  /\ Forget
  /\ UNCHANGED <<disk, pc>>
  /\ UNCHANGED callVars

\* DatabaseManager.removeConversation called by a client of the store; the
\* path is recorded when a clean pass has just indexed or skipped the file
ApiRemoveConversation(id) ==
  /\ pc = "idle" /\ events < MaxEvents
  /\ Commit(removeConversation(Store, id))
  /\ LET at == {r.file_path : r \in {x \in conversations : x.id = id}}
         fresh == {q \in at : quiet /\ stats.errors = 0 /\ q \in files}
     IN last' = Op("removeConversation",
                   IF fresh = {} THEN <<>> ELSE CHOOSE q \in fresh : TRUE,
                   {id}, NoConversation, Empty)
  /\ events' = events + 1
  /\ Forget
  /\ UNCHANGED <<disk, pc>>
  /\ UNCHANGED callVars

Next ==
  \/ \E p \in Paths, v \in Versions : WriteFile(p, v)
  \/ \E p \in Paths : DeleteFile(p)
  \/ \E denied \in SUBSET Paths : Discover(denied)
  \/ Plan
  \/ \E p \in Paths : StatFail(p)
  \/ \E p \in Paths : SkipFile(p)
  \/ \E p \in Paths : StatFile(p)
  \/ \E now \in Clock : IndexFile(now)
  \/ \E k \in ReadCounts, now \in Clock : IndexFileStreamError(k, now)
  \/ IndexFileFail
  \/ FinishPass
  \/ \E p \in Paths, now \in Clock : IndexSingleFile(p, now)
  \/ \E p \in Paths, k \in ReadCounts, now \in Clock : IndexSingleFileStreamError(p, k, now)
  \/ \E p \in Paths : IndexSingleFileFail(p)
  \/ \E p \in Paths : WatcherRemoveFile(p)
  \/ \E id \in {SessionId(p) : p \in Paths} : ApiRemoveConversation(id)

Spec == Init /\ [][Next]_vars


(***************************************************************************)
(* The Store on its own: DatabaseManager's mutating methods called in any   *)
(* order with any record, as a client of the class can call them.           *)
(***************************************************************************)
\* how many Store operations are called
MaxStoreOps == 3

\* the ids and the paths the callers use
StoreIds == {SessionId(P1), SessionId(P3)}
StorePaths == {P1, P3}

\* a record as _indexFile builds it for a file of version v, under the id given
StoreRecord(id, p, v) ==
  [Conversation(p, v, _parseJsonlStreaming(v.lines)) EXCEPT !.id = id]

\* the (record, searchable text) arguments of upsertConversation; a record
\* without filename makes the INSERT raise (NOT NULL)
StoreInputs ==
  {<<StoreRecord(id, p, v), _parseJsonlStreaming(v.lines).searchableContent>> :
     id \in StoreIds, p \in StorePaths, v \in Versions}
  \cup {<<[StoreRecord(SessionId(P1), P1, VB) EXCEPT !.filename = Null],
          _parseJsonlStreaming(VB.lines).searchableContent>>}

StoreInit ==
  /\ conversations = {} /\ conversation_fts = EmptyBag /\ tool_usage = {}
  /\ file_index = {}
  /\ foreign_keys \in BOOLEAN
  /\ disk = [p \in Paths |-> NoFile]
  /\ pc = "idle" /\ files = {} /\ todo = {} /\ indexedPaths = {} /\ cur = NoCur
  /\ stats = ZeroStats
  /\ events = 0
  /\ last = NoOp /\ quiet = FALSE
  /\ rerun = NoRerun
  /\ reader = NoReader /\ answer = NoAnswer /\ grouping = NoGrouping
  /\ schema = Migrated /\ databaseBackend = Initialized

\* db.upsertConversation(conversation, searchableContent)
CallUpsertConversation(input, now) ==
  /\ events < MaxStoreOps
  /\ Commit(upsertConversation(Store, input[1], input[2], now))
  /\ last' = Op(IF UpsertThrows(input[1]) THEN "upsertFailed" ELSE "upsert",
                input[1].filePath, {input[1].id}, input[1], input[2])
  /\ events' = events + 1
  /\ UNCHANGED <<disk, passVars, quiet, rerun>>
  /\ UNCHANGED callVars

\* db.removeConversation(id)
CallRemoveConversation(id) ==
  /\ events < MaxStoreOps
  /\ Commit(removeConversation(Store, id))
  /\ last' = Op("removeConversation", <<>>, {id}, NoConversation, Empty)
  /\ events' = events + 1
  /\ UNCHANGED <<disk, passVars, quiet, rerun>>
  /\ UNCHANGED callVars

\* db.removeFile(filePath)
CallRemoveFile(p) ==
  /\ events < MaxStoreOps
  /\ Commit(removeFile(Store, p))
  /\ last' = Op("removeFile", p, IdsAt(conversations, {p}), NoConversation, Empty)
  /\ events' = events + 1
  /\ UNCHANGED <<disk, passVars, quiet, rerun>>
  /\ UNCHANGED callVars

\* db.resolveEncodedProjectNames(); a call right after another reads the
\* rows in the same order, so it finds the same root cwds, and it is not
\* counted among the MaxStoreOps operations; prev is what the call before
\* returned, when this call follows it at once
CallResolveEncodedProjectNames ==
  /\ events < MaxStoreOps \/ (last.op = "resolve" /\ last.prev = Undef)
  /\ \E pick \in RootChoices(conversations) :
       /\ last.op = "resolve" => pick = last.pick
       /\ Commit(resolveEncodedProjectNames(Store, pick).db)
       /\ last' = [op |-> "resolve", path |-> <<>>, ids |-> {},
                   conversation |-> NoConversation, text |-> Empty, pick |-> pick,
                   resolved |-> resolveEncodedProjectNames(Store, pick).resolved,
                   folders |-> resolveEncodedProjectNames(Store, pick).folders,
                   prev |-> IF last.op = "resolve" THEN last.resolved ELSE Undef]
  /\ events' = IF last.op = "resolve" THEN events ELSE events + 1
  /\ UNCHANGED <<disk, passVars, quiet, rerun>>
  /\ UNCHANGED callVars

StoreNext ==
  \/ \E input \in StoreInputs, now \in Clock : CallUpsertConversation(input, now)
  \/ \E id \in StoreIds : CallRemoveConversation(id)
  \/ \E p \in StorePaths : CallRemoveFile(p)
  \/ CallResolveEncodedProjectNames

StoreSpec == StoreInit /\ [][StoreNext]_vars

(***************************************************************************)
(* DatabaseManager._escapeFtsQuery.  A query is a sequence of characters.   *)
(***************************************************************************)
\* the characters of the class ":()^*\-+
SpecialChars == {"\"", ":", "(", ")", "^", "*", "-", "+"}

\* the characters \w matches
WordChars ==
  {"a", "b", "c", "d", "e", "f", "g", "h", "i", "j", "k", "l", "m", "n", "o", "p", "q",
   "r", "s", "t", "u", "v", "w", "x", "y", "z",
   "A", "B", "C", "D", "E", "F", "G", "H", "I", "J", "K", "L", "M", "N", "O", "P", "Q",
   "R", "S", "T", "U", "V", "W", "X", "Y", "Z",
   "0", "1", "2", "3", "4", "5", "6", "7", "8", "9", "_"}

\* the characters \s matches, of those the model writes
SpaceChars == {" ", "\t", "\n", "\r"}

\* the alternatives of the second regular expression, in its order
Operators ==
  << <<"A", "N", "D">>, <<"O", "R">>, <<"N", "O", "T">>, <<"N", "E", "A", "R">> >>

\* the lower-case form of the letters of the operators (flag i)
LowerCase ==
  ("A" :> "a") @@ ("N" :> "n") @@ ("D" :> "d") @@ ("O" :> "o") @@ ("R" :> "r")
    @@ ("T" :> "t") @@ ("E" :> "e")

\* .replace(/[":()^*\-+]/g, ' ')
ReplaceSpecial(query) ==
  [i \in 1..Len(query) |-> IF query[i] \in SpecialChars THEN " " ELSE query[i]]

\* \b before position k of s: exactly one of s[k-1], s[k] is a word character
WordBoundary(s, k) ==
  LET before == k > 1 /\ k - 1 <= Len(s) /\ s[k - 1] \in WordChars
      after == k >= 1 /\ k <= Len(s) /\ s[k] \in WordChars
  IN before # after

\* the alternative w matches s at position k, case-insensitively, between two \b
MatchesAt(s, k, w) ==
  /\ k + Len(w) - 1 <= Len(s)
  /\ \A j \in 1..Len(w) : s[k + j - 1] \in {w[j], LowerCase[w[j]]}
  /\ WordBoundary(s, k)
  /\ WordBoundary(s, k + Len(w))

\* the length of the match of \b(AND|OR|NOT|NEAR)\b at position k, 0 for none
MatchLength(s, k) ==
  IF \E a \in 1..Len(Operators) : MatchesAt(s, k, Operators[a])
  THEN Len(Operators[CHOOSE a \in 1..Len(Operators) :
                       /\ MatchesAt(s, k, Operators[a])
                       /\ \A b \in 1..(a - 1) : ~MatchesAt(s, k, Operators[b])])
  ELSE 0

RECURSIVE ReplaceOperators(_, _)
\* .replace(/\b(AND|OR|NOT|NEAR)\b/gi, ' ') from position k on: matches are
\* looked for from left to right, each search resuming after the last match
ReplaceOperators(s, k) ==
  IF k > Len(s) THEN <<>>
  ELSE IF MatchLength(s, k) > 0
       THEN <<" ">> \o ReplaceOperators(s, k + MatchLength(s, k))
       ELSE <<s[k]>> \o ReplaceOperators(s, k + 1)

RECURSIVE CollapseSpaces(_)
\* .replace(/\s+/g, ' ')
CollapseSpaces(s) ==
  IF s = <<>> THEN <<>>
  ELSE IF Head(s) \in SpaceChars
       THEN IF Len(s) > 1 /\ s[2] \in SpaceChars
            THEN CollapseSpaces(Tail(s))
            ELSE <<" ">> \o CollapseSpaces(Tail(s))
       ELSE <<Head(s)>> \o CollapseSpaces(Tail(s))

RECURSIVE Trim(_)
\* String.prototype.trim
Trim(s) ==
  IF s = <<>> THEN <<>>
  ELSE IF Head(s) \in SpaceChars THEN Trim(Tail(s))
  ELSE IF s[Len(s)] \in SpaceChars THEN Trim(SubSeq(s, 1, Len(s) - 1))
  ELSE s

\* the sanitizer hands back the string it was given (C20)
_escapeFtsQuery_AsGiven(query) == IF Trim(query) = <<>> THEN <<"*">> ELSE Trim(query)

\* DatabaseManager._escapeFtsQuery
_escapeFtsQuery(query) ==
  LET safe == Trim(CollapseSpaces(ReplaceOperators(ReplaceSpecial(query), 1)))
  IN IF safe = <<>> THEN <<"*">> ELSE safe

(***************************************************************************)
(* The queries of DatabaseManager.  SQL leaves the order of rows with equal *)
(* sort keys open, and bm25 ranks are the engine's: each query operator      *)
(* gives the set of lists the call can return.                               *)
(***************************************************************************)
\* an options object; Undef stands for a limit or an offset that is not given,
\* FALSE for includeSubagents not given, Undefined for sortBy and sortOrder
\* not given
Options(limit, offset, includeSubagents) ==
  [limit |-> limit, offset |-> offset, sortBy |-> Undefined, sortOrder |-> Undefined,
   project |-> Null, includeSubagents |-> includeSubagents]
\* an options object that asks for an ordering; sortBy is a string of one
\* atom, sortOrder a string of characters
SortOptions(sortBy, sortOrder, includeSubagents) ==
  [Options(Undef, Undef, includeSubagents) EXCEPT !.sortBy = sortBy, !.sortOrder = sortOrder]

\* the defaults of the destructuring assignments
ListDefaultLimit == 100
SearchDefaultLimit == 50
OrDefault(v, d) == IF v = Undef THEN d ELSE v

\* DatabaseManager._rowToConversation
_rowToConversation(row) ==
  [id |-> row.id, filePath |-> row.file_path, filename |-> row.filename,
   project |-> row.project, messageCount |-> row.message_count, fileSize |-> row.file_size,
   lastModified |-> row.last_modified, created |-> row.created, tokens |-> row.tokens_total,
   tokenUsage |-> [total |-> row.tokens_total, input |-> row.tokens_input,
                   output |-> row.tokens_output],
   primaryModel |-> row.primary_model,
   isSubagent |-> row.is_subagent,
   parentId |-> OrNull(row.parent_id)]

\* the lists that hold every element of the set once
Orderings(S) ==
  {seq \in [1..Cardinality(S) -> S] : \A i, j \in 1..Cardinality(S) : seq[i] = seq[j] => i = j}

\* LIMIT ? OFFSET ? applied to a list
LimitOffset(seq, limit, offset) ==
  SubSeq(seq, offset + 1, Min(Len(seq), offset + limit))

\* the column and the direction of ORDER BY in getConversations
allowedSorts ==
  {<<"last_modified">>, <<"created">>, <<"tokens_total">>, <<"message_count">>, <<"file_size">>}
SafeSort(sortBy) == IF sortBy \in allowedSorts THEN sortBy[1] ELSE "last_modified"
\* String.prototype.toUpperCase on the letters the model's orders are made of
UpperCase(c) ==
  CASE c = "a" -> "A" [] c = "s" -> "S" [] c = "c" -> "C" [] c = "d" -> "D"
    [] c = "e" -> "E" [] c = "x" -> "X" [] OTHER -> c
ToUpperCase(s) == [i \in 1..Len(s) |-> UpperCase(s[i])]
\* `sortOrder = 'DESC'` of the destructuring: the default stands in for
\* undefined only
OrderGiven(sortOrder) == IF sortOrder = Undefined THEN <<"D", "E", "S", "C">> ELSE sortOrder
\* sortOrder.toUpperCase() throws a TypeError on null and on a value that is
\* not a string
SortOrderThrows(sortOrder) == OrderGiven(sortOrder) \in {Null, NotAString}
SafeOrder(sortOrder) ==
  IF ToUpperCase(OrderGiven(sortOrder)) = <<"A", "S", "C">> THEN "ASC" ELSE "DESC"

\* the filter is left out of every statement (C23)
SubagentFilter_Omitted(row, includeSubagents) == TRUE

\* '(is_subagent = 0 OR is_subagent IS NULL)' unless includeSubagents is truthy
SubagentFilter(row, includeSubagents) == includeSubagents \/ ~row.is_subagent

\* DatabaseManager.getConversations throws before it reads the database
getConversationsThrows(options) == SortOrderThrows(options.sortOrder)

\* DatabaseManager.getConversations, when it does not throw
getConversations(db, options) ==
  LET limit == OrDefault(options.limit, ListDefaultLimit)
      offset == OrDefault(options.offset, 0)
      col == SafeSort(options.sortBy)
      desc == SafeOrder(options.sortOrder) = "DESC"
      found == {r \in db.conversations :
                  /\ SubagentFilter(r, options.includeSubagents)
                  /\ Falsy(options.project) \/ r.project = options.project}
      sorted == {seq \in Orderings(found) :
                   \A i, j \in 1..Len(seq) :
                     i < j => IF desc THEN seq[i][col] >= seq[j][col]
                                      ELSE seq[i][col] <= seq[j][col]}
  IN {[i \in 1..Len(LimitOffset(seq, limit, offset)) |->
         _rowToConversation(LimitOffset(seq, limit, offset)[i])] : seq \in sorted}

RECURSIVE Words(_, _)
\* the tokens of a text: the runs of word characters; word is the one being read
Words(text, word) ==
  IF text = <<>> THEN IF word = <<>> THEN {} ELSE {word}
  ELSE IF Head(text) \in WordChars THEN Words(Tail(text), Append(word, Head(text)))
  ELSE (IF word = <<>> THEN {} ELSE {word}) \cup Words(Tail(text), <<>>)

\* the FTS5 parser rejects the query string: the lone '*' is taken for a
\* special query that does not exist, and a character that is neither part
\* of a bareword nor white space is a syntax error
FtsRejects(safeQuery) ==
  \/ safeQuery = <<"*">>
  \/ \E i \in 1..Len(safeQuery) : safeQuery[i] \notin WordChars \cup SpaceChars

\* conversation_fts MATCH ?: every term of the query is a token of the content
\* (the terms the model's queries are made of occur in no id and no project)
FtsMatch(ftsRow, safeQuery) == Words(safeQuery, <<>>) \subseteq Words(ftsRow.content, <<>>)

\* the rows of the join of conversation_fts and conversations that match,
\* one per copy of the FTS row
Matched(db, safeQuery, includeSubagents) ==
  {<<f, n, c>> \in (DOMAIN db.conversation_fts) \X (1..Cardinality(db.conversations) + 3)
                     \X db.conversations :
     /\ n <= db.conversation_fts[f]
     /\ f.conversation_id = c.id
     /\ FtsMatch(f, safeQuery)
     /\ SubagentFilter(c, includeSubagents)}

\* the lists the FTS statement of both search methods can return
FtsSearch(db, query, options) ==
  LET limit == OrDefault(options.limit, SearchDefaultLimit)
      offset == OrDefault(options.offset, 0)
      safeQuery == _escapeFtsQuery(query)
  IN {[i \in 1..Len(LimitOffset(seq, limit, offset)) |->
         _rowToConversation(LimitOffset(seq, limit, offset)[i][3])] :
        seq \in Orderings(Matched(db, safeQuery, options.includeSubagents))}

\* what a query method returns: the list, whether its entries carry a
\* relevance and a snippet, and the LIMIT of the statement that produced it
Result(rows, ranked, snippets, limit) ==
  [rows |-> rows, ranked |-> ranked, snippets |-> snippets, limit |-> limit, raised |-> FALSE]
\* the method throws instead
Raised == [rows |-> <<>>, ranked |-> FALSE, snippets |-> FALSE, limit |-> 0, raised |-> TRUE]

\* the outcomes of this.getConversations(options)
Listing(db, options) ==
  IF getConversationsThrows(options) THEN {Raised}
  ELSE {Result(rows, FALSE, FALSE, OrDefault(options.limit, ListDefaultLimit)) :
          rows \in getConversations(db, options)}

\* the FTS statement throws: the index cannot be read or the query string is
\* rejected
FtsFails(db, safeQuery) == db.fts_malformed \/ FtsRejects(safeQuery)

\* DatabaseManager.searchConversations
searchConversations(db, query, options) ==
  IF Falsy(query) \/ IsBlank(query) \/ FtsFails(db, _escapeFtsQuery(query))
  THEN Listing(db, options)
  ELSE {Result(rows, TRUE, FALSE, OrDefault(options.limit, SearchDefaultLimit)) :
          rows \in FtsSearch(db, query, options)}

\* an empty query is handed on to searchConversations (C18)
searchConversationsWithSnippets_NoGuard(db, query, options) ==
  searchConversations(db, query, options)

\* DatabaseManager.searchConversationsWithSnippets
searchConversationsWithSnippets(db, query, options) ==
  IF Falsy(query) \/ IsBlank(query)
  THEN {Result(<<>>, FALSE, FALSE, 0)}
  ELSE IF FtsFails(db, _escapeFtsQuery(query))
  THEN searchConversations(db, query, options)
  ELSE {Result(rows, TRUE, TRUE, OrDefault(options.limit, SearchDefaultLimit)) :
          rows \in FtsSearch(db, query, options)}

(***************************************************************************)
(* QuerySpec: the store is filled by upserts and then queried once.         *)
(***************************************************************************)
\* the sessions the store is filled with: a top-level session with text, a
\* subagent with text, a second top-level session without text or with text
QueryInputs ==
  {<<StoreRecord(id, p, v), _parseJsonlStreaming(v.lines).searchableContent>> :
     <<id, p, v>> \in {<<SessionId(P1), P1, VB>>, <<SessionId(P3), P3, VB>>,
                       <<<<"s2">>, P2, VC>>, <<<<"s2">>, P2, VB>>}}

\* the queries: none, empty, white space, operators only, a word of the
\* texts, a word of no text, a word followed by a character FTS5 rejects
Queries ==
  {Null, Empty, <<" ">>, <<"\t", " ">>, <<"O", "R">>,
   <<"A", "N", "D", " ", "o", "r", " ", "N", "O", "T">>,
   <<"h", "i">>, <<"z">>, <<"h", "i", ".">>}

\* the values of sortBy: not given, two columns of the list, a text that is
\* no column
SortBys == {Undefined, <<"created">>, <<"tokens_total">>, <<"id; DROP TABLE conversations">>}
\* the values of sortOrder: not given, null, not a string, and strings
SortOrders ==
  {Undefined, Null, NotAString, <<"A", "S", "C">>, <<"a", "s", "c">>, <<"A", "s", "c">>,
   <<"D", "E", "S", "C">>, <<"d", "e", "s", "c">>, <<"a", "s", "c", ";">>, <<"x">>, Empty}

QueryOptions ==
  {Options(limit, offset, includeSubagents) :
     limit \in {Undef, 1, 2}, offset \in {Undef, 1}, includeSubagents \in BOOLEAN}
  \cup {SortOptions(sortBy, sortOrder, TRUE) :
          sortBy \in SortBys, sortOrder \in {Undefined, <<"a", "s", "c">>}}
  \cup {SortOptions(Undefined, sortOrder, FALSE) : sortOrder \in SortOrders}

QueryInit ==
  /\ conversations = {} /\ conversation_fts = EmptyBag /\ tool_usage = {}
  /\ file_index = {}
  /\ foreign_keys = TRUE
  /\ disk = [p \in Paths |-> NoFile]
  /\ pc = "idle" /\ files = {} /\ todo = {} /\ indexedPaths = {} /\ cur = NoCur
  /\ stats = ZeroStats
  /\ events = 0
  /\ last = NoOp /\ quiet = FALSE
  /\ rerun = NoRerun
  /\ reader = NoReader /\ answer = NoAnswer /\ grouping = NoGrouping
  /\ schema = Migrated /\ databaseBackend = Initialized

\* db.upsertConversation before any query
Populate(input, now) ==
  /\ answer = NoAnswer
  /\ CallUpsertConversation(input, now)

\* the call returns result, or throws
Answer(op, query, options, malformed, result) ==
  /\ answer' = [op |-> op, query |-> query, options |-> options,
                safeQuery |-> IF Falsy(query) THEN <<>> ELSE _escapeFtsQuery(query),
                rows |-> result.rows, ranked |-> result.ranked,
                snippets |-> result.snippets, limit |-> result.limit,
                raised |-> result.raised, malformed |-> malformed]
  /\ UNCHANGED <<storeVars, disk, passVars, events, last, quiet, rerun, reader, grouping, schema, databaseBackend>>

\* db.getConversations(options)
CallGetConversations(options) ==
  /\ answer = NoAnswer
  /\ \E result \in Listing(Store, options) :
       Answer("getConversations", <<>>, options, FALSE, result)

\* the database a search runs on
SearchedStore(malformed) == IF malformed THEN Malformed(Store) ELSE Store

\* db.searchConversations(query, options)
CallSearchConversations(query, options, malformed) ==
  /\ answer = NoAnswer
  /\ \E result \in searchConversations(SearchedStore(malformed), query, options) :
       Answer("searchConversations", query, options, malformed, result)

\* db.searchConversationsWithSnippets(query, options)
CallSearchConversationsWithSnippets(query, options, malformed) ==
  /\ answer = NoAnswer
  /\ \E result \in searchConversationsWithSnippets(SearchedStore(malformed), query, options) :
       Answer("searchConversationsWithSnippets", query, options, malformed, result)

QueryNext ==
  \/ \E input \in QueryInputs, now \in Clock : Populate(input, now)
  \/ \E options \in QueryOptions : CallGetConversations(options)
  \/ \E query \in Queries, options \in QueryOptions, malformed \in BOOLEAN :
       CallSearchConversations(query, options, malformed)
  \/ \E query \in Queries, options \in QueryOptions, malformed \in BOOLEAN :
       CallSearchConversationsWithSnippets(query, options, malformed)

QuerySpec == QueryInit /\ [][QueryNext]_vars

(***************************************************************************)
(* SanitizeSpec: one call of _escapeFtsQuery on any query made of an        *)
(* operator-like word between two affixes of at most MaxAffix characters.   *)
(***************************************************************************)
MaxAffix == 2

\* a word character, two white-space characters, a special character and a
\* character that is none of these
QueryChars == {"x", " ", "\t", "*", ","}
Affixes == UNION {[1..n -> QueryChars] : n \in 0..MaxAffix}
QueryWords ==
  {<<>>, <<"A", "N", "D">>, <<"o", "r">>, <<"N", "o", "T">>, <<"N", "E", "A", "R">>,
   <<"A", "N", "D", " ", "O", "R", " ", "N", "O", "T">>, <<"N", "O", "T", "E">>}
SanitizerQueries == {a \o w \o b : a \in Affixes, w \in QueryWords, b \in Affixes}

SanitizeInit ==
  /\ conversations = {} /\ conversation_fts = EmptyBag /\ tool_usage = {}
  /\ file_index = {}
  /\ foreign_keys = TRUE
  /\ disk = [p \in Paths |-> NoFile]
  /\ pc = "idle" /\ files = {} /\ todo = {} /\ indexedPaths = {} /\ cur = NoCur
  /\ stats = ZeroStats
  /\ events = 0
  /\ last = NoOp /\ quiet = FALSE
  /\ rerun = NoRerun
  /\ reader = NoReader /\ grouping = NoGrouping
  /\ schema = Migrated /\ databaseBackend = Initialized
  /\ \E query \in SanitizerQueries : answer = [NoAnswer EXCEPT !.op = "pending", !.query = query]

\* this._escapeFtsQuery(query)
Call_escapeFtsQuery ==
  /\ answer.op = "pending"
  /\ answer' = [answer EXCEPT !.op = "_escapeFtsQuery",
                              !.safeQuery = _escapeFtsQuery(answer.query)]
  /\ UNCHANGED <<storeVars, disk, passVars, events, last, quiet, rerun, reader, grouping, schema, databaseBackend>>

SanitizeNext == Call_escapeFtsQuery

SanitizeSpec == SanitizeInit /\ [][SanitizeNext]_vars

(***************************************************************************)
(* ParseSpec: the indexing of one file inside a full pass, one readline     *)
(* event at a time.  The file is any sequence of at most MaxLines lines.     *)
(***************************************************************************)
\* how many lines the file has at most
MaxLines == 3

\* an assistant line whose usage has no input_tokens
AssistantNoInput ==
  [JsonLine("assistant", NullPath, StrContent(<<"o", "k">>))
     EXCEPT !.usage = TRUE, !.output = 3, !.model = <<"m2">>]
\* a user line that carries a usage object
UserWithUsage == [UserHi(NullPath) EXCEPT !.usage = TRUE, !.input = 4, !.output = 4]
\* an assistant line whose content array holds a null
AssistantNullBlock ==
  [JsonLine("assistant", NullPath, ArrContent(<<TextBlock(<<"x">>), NullBlock>>))
     EXCEPT !.usage = TRUE, !.input = 5, !.output = 5, !.model = <<"m1">>]

\* a user line whose content array holds a tool_use block
UserToolUse == JsonLine("user", NullPath, ArrContent(<<ToolBlock(<<"Read">>)>>))
\* an assistant line with tool_use blocks of empty name and of no name
AssistantUnnamed ==
  JsonLine("assistant", NullPath,
           ArrContent(<<ToolBlock(Empty), ToolBlock(Null), ToolBlock(<<"Write">>)>>))
\* an assistant line whose content is one tool_use block
AssistantOneBlock == JsonLine("assistant", NullPath, ObjContent(ToolBlock(<<"Read">>)))

\* the lines a file is made of
ParserLines ==
  {GarbageLine, BlankLine, UserHi(CwdP), AssistantTools, AssistantNoInput, UserWithUsage,
   AssistantNullBlock, UserToolUse, AssistantUnnamed, AssistantOneBlock}

ParserFiles == UNION {[1..n -> ParserLines] : n \in 0..MaxLines}

\* the stat result of the file
ParserStat(lines) == [mtime |-> 1, size |-> Len(lines), birthtime |-> 1, lines |-> lines]

\* runFullIndex has found the file, fs.stat has succeeded, needsIndexing is
\* true and _parseJsonlStreaming has created the stream and its handlers
ParseInit ==
  /\ conversations = {} /\ conversation_fts = EmptyBag /\ tool_usage = {}
  /\ file_index = {}
  /\ foreign_keys = TRUE
  /\ \E lines \in ParserFiles :
       /\ disk = [p \in Paths |-> IF p = P1 THEN ParserStat(lines) ELSE NoFile]
       /\ cur = [path |-> P1, fileStats |-> ParserStat(lines)]
       /\ reader = [lines |-> lines, read |-> 0, result |-> ParseStart, promise |-> "pending",
                    streamError |-> FALSE]
  /\ pc = "parse" /\ files = {P1} /\ todo = {P1} /\ indexedPaths = {}
  /\ stats = [ZeroStats EXCEPT !.filesScanned = 1]
  /\ events = 0
  /\ last = NoOp /\ quiet = FALSE
  /\ rerun = NoRerun
  /\ answer = NoAnswer /\ grouping = NoGrouping
  /\ schema = Migrated /\ databaseBackend = Initialized

\* rl emits 'line'
LineEvent ==
  /\ reader.promise = "pending" /\ reader.read < Len(reader.lines)
  /\ reader' = [reader EXCEPT !.read = @ + 1,
                              !.result = OnLine(@, reader.lines[reader.read + 1])]
  /\ UNCHANGED <<storeVars, disk, passVars, events, last, quiet, rerun, answer, grouping, schema, databaseBackend>>

\* the input ends: rl emits 'close' and the handler resolves the promise
CloseEvent ==
  /\ reader.promise = "pending" /\ reader.read = Len(reader.lines)
  /\ reader' = [reader EXCEPT !.result = OnClose(@), !.promise = "resolved"]
  /\ UNCHANGED <<storeVars, disk, passVars, events, last, quiet, rerun, answer, grouping, schema, databaseBackend>>

\* readStream emits 'error': cleanup() calls rl.close(), 'close' is emitted
\* synchronously and its handler resolves the promise; reject(err) comes after
ErrorEvent ==
  /\ reader.promise = "pending"
  /\ reader' = [reader EXCEPT !.result = OnClose(@), !.promise = "resolved",
                              !.streamError = TRUE]
  /\ UNCHANGED <<storeVars, disk, passVars, events, last, quiet, rerun, answer, grouping, schema, databaseBackend>>

\* the rest of _indexFile and of the loop body: the upsert, filesIndexed++
IndexParsed(now) ==
  /\ pc = "parse" /\ reader.promise = "resolved"
  /\ LET conversation == Conversation(cur.path, cur.fileStats, reader.result) IN
     /\ Commit(upsertConversation(Store, conversation, reader.result.searchableContent, now))
     /\ last' = Op("upsert", cur.path, {}, conversation, reader.result.searchableContent)
  /\ stats' = [stats EXCEPT !.filesIndexed = @ + 1]
  /\ todo' = todo \ {cur.path}
  /\ cur' = NoCur
  /\ pc' = "loop"
  /\ UNCHANGED <<disk, files, indexedPaths, events, quiet, rerun, reader, answer, grouping, schema, databaseBackend>>

ParseNext ==
  \/ LineEvent
  \/ CloseEvent
  \/ ErrorEvent
  \/ \E now \in Clock : IndexParsed(now)

ParseSpec == ParseInit /\ [][ParseNext]_vars

(***************************************************************************)
(* CancelSpec: full passes over a tree that does not change, during which   *)
(* the host asks the pass to stop.  runFullIndex takes no signal and reads  *)
(* none between two files: the request changes nothing the loop looks at.   *)
(***************************************************************************)
\* the trees: every path without a file or with one of its versions
CancelTrees ==
  {d \in [Paths -> Versions \cup {NoFile}] : \A p \in Paths : d[p] \in VersionsOf(p) \cup {NoFile}}

CancelInit ==
  /\ conversations = {} /\ conversation_fts = EmptyBag /\ tool_usage = {}
  /\ file_index = {}
  /\ foreign_keys = TRUE
  /\ disk \in CancelTrees
  /\ pc = "idle" /\ files = {} /\ todo = {} /\ indexedPaths = {} /\ cur = NoCur
  /\ stats = ZeroStats
  /\ events = 0
  /\ last = NoOp /\ quiet = FALSE
  /\ rerun = NoRerun
  /\ reader = NoReader /\ answer = NoAnswer /\ grouping = NoGrouping
  /\ schema = Migrated /\ databaseBackend = Initialized

\* the host asks for the pass to stop while the loop is between two files
RequestCancel ==
  /\ pc = "loop" /\ cur = NoCur /\ ~rerun.cancelled
  /\ rerun' = [rerun EXCEPT !.cancelled = TRUE]
  /\ UNCHANGED <<storeVars, disk, passVars, events, last, quiet>>
  /\ UNCHANGED callVars

CancelNext ==
  \/ Discover({})
  \/ Plan
  \/ \E p \in Paths : SkipFile(p)
  \/ \E p \in Paths : StatFile(p)
  \/ \E now \in Clock : IndexFile(now)
  \/ FinishPass
  \/ RequestCancel

CancelSpec == CancelInit /\ [][CancelNext]_vars

(***************************************************************************)
(* Hierarchy grouping (chats-mobile.js).  A conversation object is reduced  *)
(* to the properties _groupSubagentsUnderParents reads and writes;          *)
(* lastModified is the number `new Date(lastModified)` converts to, and a   *)
(* subagentCount of 0 also stands for an object without the property.       *)
(***************************************************************************)
Conv(id, isSubagent, parentId, lastModified) ==
  [id |-> id, isSubagent |-> isSubagent, parentId |-> parentId,
   lastModified |-> lastModified, isStub |-> FALSE, subagentCount |-> 0]

RECURSIVE InsertByLastModified(_, _)
\* where the stable sort leaves c among the elements before it: after every
\* element that is not older
InsertByLastModified(sorted, c) ==
  IF sorted = <<>> THEN <<c>>
  ELSE IF Head(sorted).lastModified >= c.lastModified
  THEN <<Head(sorted)>> \o InsertByLastModified(Tail(sorted), c)
  ELSE <<c>> \o sorted

RECURSIVE InsertBeforeEqual(_, _)
\* c is put before the elements of its own lastModified (C25)
InsertBeforeEqual(sorted, c) ==
  IF sorted = <<>> THEN <<c>>
  ELSE IF Head(sorted).lastModified > c.lastModified
  THEN <<Head(sorted)>> \o InsertBeforeEqual(Tail(sorted), c)
  ELSE <<c>> \o sorted

\* the list is left in the order given (C24)
SortByLastModified_AsGiven(seq) == seq

RECURSIVE SortByLastModified_Unstable(_)
\* a sort that turns the order of equal elements round (C25)
SortByLastModified_Unstable(seq) ==
  IF seq = <<>> THEN <<>>
  ELSE InsertBeforeEqual(SortByLastModified_Unstable(SubSeq(seq, 1, Len(seq) - 1)),
                         seq[Len(seq)])

RECURSIVE SortByLastModified(_)
\* Array.prototype.sort((a, b) => new Date(b.lastModified) - new Date(a.lastModified)):
\* descending, and stable
SortByLastModified(seq) ==
  IF seq = <<>> THEN <<>>
  ELSE InsertByLastModified(SortByLastModified(SubSeq(seq, 1, Len(seq) - 1)), seq[Len(seq)])

\* every element is kept (C38)
Unique_KeepsAll(seq) == seq

RECURSIVE Unique(_)
\* [...new Set(seq)]: the first occurrence of every element, in order
Unique(seq) ==
  IF seq = <<>> THEN <<>>
  ELSE LET front == Unique(SubSeq(seq, 1, Len(seq) - 1))
           x == seq[Len(seq)]
       IN IF \E i \in 1..Len(front) : front[i] = x THEN front ELSE Append(front, x)

\* seq.map(f) for the two maps of the method
MapParentId(seq) == [i \in 1..Len(seq) |-> seq[i].parentId]

\* subagentCounts[id] || 0
subagentCounts(subagents, id) ==
  Cardinality({i \in 1..Len(subagents) : ~Falsy(subagents[i].parentId)
                                          /\ subagents[i].parentId = id})

\* this.databaseBackend.getConversation(parentId): the object or null
getConversation(stored, id) ==
  IF \E c \in stored : c.id = id THEN {CHOOSE c \in stored : c.id = id} ELSE {}

RECURSIVE parentStubs(_, _, _)
\* the loop that fetches the stubs of parentIdsNeedingStubs
parentStubs(ids, stored, subagents) ==
  IF ids = <<>> THEN <<>>
  ELSE LET rest == parentStubs(Tail(ids), stored, subagents)
       IN IF getConversation(stored, Head(ids)) = {} THEN rest
          ELSE <<[(CHOOSE c \in getConversation(stored, Head(ids)) : TRUE)
                    EXCEPT !.isStub = TRUE,
                           !.subagentCount = subagentCounts(subagents, Head(ids))]>> \o rest

RECURSIVE Emit(_, _)
\* the loop over allParents: each parent and then its subagents, sorted
Emit(allParents, subagents) ==
  IF allParents = <<>> THEN <<>>
  ELSE LET parent == Head(allParents)
           childSubagents ==
             SortByLastModified(SelectSeq(subagents, LAMBDA s : s.parentId = parent.id))
       IN <<parent>> \o childSubagents \o Emit(Tail(allParents), subagents)

\* ChatsMobile._groupSubagentsUnderParents; backend is
\* this.useDatabaseBackend && this.databaseBackend.isInitialized
_groupSubagentsUnderParents(results, backend, stored) ==
  LET parents == SelectSeq(results, LAMBDA c : ~c.isSubagent)
      subagents == SelectSeq(results, LAMBDA c : c.isSubagent)
      parentIdsInResults == {parents[i].id : i \in 1..Len(parents)}
      subagentsNeedingStubs ==
        SelectSeq(subagents,
                  LAMBDA s : ~Falsy(s.parentId) /\ s.parentId \notin parentIdsInResults)
      parentIdsNeedingStubs == Unique(MapParentId(subagentsNeedingStubs))
      stubs == IF backend /\ Len(parentIdsNeedingStubs) > 0
               THEN parentStubs(parentIdsNeedingStubs, stored, subagents) ELSE <<>>
      counted == [i \in 1..Len(parents) |->
                    [parents[i] EXCEPT !.subagentCount =
                       IF subagentCounts(subagents, parents[i].id) # 0
                       THEN subagentCounts(subagents, parents[i].id)
                       ELSE parents[i].subagentCount]]
      allParents == SortByLastModified(counted \o stubs)
      allParentIds == {allParents[i].id : i \in 1..Len(allParents)}
      orphanSubagents ==
        SelectSeq(subagents, LAMBDA s : Falsy(s.parentId) \/ s.parentId \notin allParentIds)
  IN IF Len(subagents) = 0 THEN results
     ELSE Emit(allParents, subagents) \o orphanSubagents

(***************************************************************************)
(* GroupSpec: _groupSubagentsUnderParents is called twice on a list of at   *)
(* most MaxList results.                                                    *)
(***************************************************************************)
MaxList == 3
MaxCalls == 2

\* two sessions in the results, a third that is in the store only
ParentPa == Conv(<<"pa">>, FALSE, Null, 1)
ParentPb == Conv(<<"pb">>, FALSE, Null, 2)
ParentPq == Conv(<<"pq">>, FALSE, Null, 2)
\* subagents of pa (two of them equally old), of pq (two), of a session that
\* is stored nowhere, and one without parentId
GroupItems ==
  {ParentPa, ParentPb,
   Conv(<<"pa", "_", "x">>, TRUE, <<"pa">>, 1), Conv(<<"pa", "_", "y">>, TRUE, <<"pa">>, 2),
   Conv(<<"pa", "_", "z">>, TRUE, <<"pa">>, 2), Conv(<<"pq", "_", "x">>, TRUE, <<"pq">>, 3),
   Conv(<<"pq", "_", "y">>, TRUE, <<"pq">>, 1),
   Conv(<<"pn", "_", "x">>, TRUE, <<"pn">>, 2), Conv(<<"x">>, TRUE, Null, 1)}
GroupLists == UNION {[1..n -> GroupItems] : n \in 0..MaxList}

GroupInit ==
  /\ conversations = {} /\ conversation_fts = EmptyBag /\ tool_usage = {}
  /\ file_index = {}
  /\ foreign_keys = TRUE
  /\ disk = [p \in Paths |-> NoFile]
  /\ pc = "idle" /\ files = {} /\ todo = {} /\ indexedPaths = {} /\ cur = NoCur
  /\ stats = ZeroStats
  /\ events = 0
  /\ last = NoOp /\ quiet = FALSE
  /\ rerun = NoRerun
  /\ reader = NoReader /\ answer = NoAnswer /\ schema = Migrated /\ databaseBackend = Initialized
  /\ \E input \in GroupLists, backend \in BOOLEAN :
       grouping = [input |-> input, stored |-> {ParentPa, ParentPb, ParentPq},
                   backend |-> backend, outputs |-> <<>>]

\* this._groupSubagentsUnderParents(results)
CallGroupSubagentsUnderParents ==
  /\ Len(grouping.outputs) < MaxCalls
  /\ grouping' = [grouping EXCEPT !.outputs =
                    Append(@, _groupSubagentsUnderParents(grouping.input, grouping.backend,
                                                          grouping.stored))]
  /\ UNCHANGED <<storeVars, disk, passVars, events, last, quiet, rerun, reader, answer, schema, databaseBackend>>

GroupNext == CallGroupSubagentsUnderParents

GroupSpec == GroupInit /\ [][GroupNext]_vars

(***************************************************************************)
(* The startup migrations of DatabaseManager.  A row of a table without a   *)
(* column holds the value ALTER TABLE ADD COLUMN gives it later (0, NULL).  *)
(* fault names the statement of this initialize() that raises, if any.      *)
(***************************************************************************)
Faults ==
  {"none", "create_table", "subagent_table_info", "alter_is_subagent", "alter_parent_id",
   "create_index", "count_unmigrated", "update_subagents", "cwd_table_info", "alter_cwd"}

\* file_path LIKE '%/subagents/%' (the paths of the model are lower case)
LikeSubagents(filePath) ==
  \E i \in 2..(Len(filePath) - 1) : filePath[i] = <<"subagents">>

\* the data migration runs at every start (C28)
_hasUnmigratedSubagents_Always(convs, fault) == TRUE

\* DatabaseManager._hasUnmigratedSubagents: false when the query raises
_hasUnmigratedSubagents(convs, fault) ==
  /\ fault # "count_unmigrated"
  /\ \E r \in convs : LikeSubagents(r.file_path) /\ ~r.is_subagent

\* DatabaseManager._migrateExistingSubagentData: the UPDATEs of one
\* transaction, undone as a whole when one of them raises
_migrateExistingSubagentData(convs, fault) ==
  IF fault = "update_subagents" /\ \E r \in convs : LikeSubagents(r.file_path)
  THEN convs
  ELSE {IF LikeSubagents(r.file_path) /\ IndexOf(r.file_path, <<"subagents">>) > 0
        THEN [r EXCEPT !.is_subagent = TRUE,
                       !.parent_id = At(r.file_path, IndexOf(r.file_path, <<"subagents">>) - 1)]
        ELSE r : r \in convs}

\* the statement named by fault is reached: the catch block logs it
Logs(sch, message) == [sch EXCEPT !.logged = @ \cup {message}]

\* DatabaseManager._migrateSubagentColumns on the rows and the schema
_migrateSubagentColumns(convs, sch, fault) ==
  IF fault = "subagent_table_info"
  THEN [convs |-> convs, sch |-> Logs(sch, "Subagent column migration failed")]
  ELSE IF "is_subagent" \notin sch.columns /\ fault = "alter_is_subagent"
  THEN [convs |-> convs, sch |-> Logs(sch, "Subagent column migration failed")]
  ELSE
    LET sch1 == [sch EXCEPT !.columns = @ \cup {"is_subagent"}]
    IN IF "parent_id" \notin sch1.columns /\ fault = "alter_parent_id"
       THEN [convs |-> convs, sch |-> Logs(sch1, "Subagent column migration failed")]
       ELSE IF "parent_id" \notin sch1.columns /\ fault = "create_index"
       THEN [convs |-> convs,
             sch |-> Logs([sch1 EXCEPT !.columns = @ \cup {"parent_id"}],
                          "Subagent column migration failed")]
       ELSE
         LET needsDataMigration ==
               "is_subagent" \notin sch.columns \/ "parent_id" \notin sch.columns
             sch2 == IF "parent_id" \in sch1.columns THEN sch1
                     ELSE [sch1 EXCEPT !.columns = @ \cup {"parent_id"},
                                       !.indexes = @ \cup MigratedIndexes]
             counted == ~needsDataMigration /\ fault = "count_unmigrated"
             run == needsDataMigration \/ _hasUnmigratedSubagents(convs, fault)
             failed == run /\ fault = "update_subagents"
                           /\ \E r \in convs : LikeSubagents(r.file_path)
             sch3 == IF counted THEN Logs(sch2, "Could not check for unmigrated subagents")
                     ELSE IF failed THEN Logs(sch2, "Subagent data migration failed")
                     ELSE sch2
         IN [convs |-> IF run THEN _migrateExistingSubagentData(convs, fault) ELSE convs,
             sch |-> sch3]

\* DatabaseManager._migrateCwdColumn
_migrateCwdColumn(sch, fault) ==
  IF fault = "cwd_table_info" \/ ("cwd" \notin sch.columns /\ fault = "alter_cwd")
  THEN Logs(sch, "CWD column migration failed")
  ELSE [sch EXCEPT !.columns = @ \cup {"cwd"}]

\* DatabaseManager._createSchema: a failure of the CREATE statements is
\* raised again, the two migrations follow
_createSchema(convs, sch, fault) ==
  IF fault = "create_table"
  THEN [convs |-> convs, sch |-> [sch EXCEPT !.raised = TRUE, !.logged = {}]]
  ELSE LET m == _migrateSubagentColumns(convs, [sch EXCEPT !.raised = FALSE, !.logged = {}],
                                        fault)
       IN [convs |-> m.convs, sch |-> _migrateCwdColumn(m.sch, fault)]

(***************************************************************************)
(* MigrateSpec: a database of an older or of the present schema is opened   *)
(* MaxInits times, and used in between once its schema is complete.         *)
(***************************************************************************)
MaxInits == 2

\* a row written before the subagent and cwd columns existed
LegacyRow(id, p) ==
  [ConversationRow(StoreRecord(id, p, VB), 8)
     EXCEPT !.is_subagent = FALSE, !.parent_id = Null, !.cwd = NullPath]
LegacyRows == SUBSET {LegacyRow(<<"s1">>, P1), LegacyRow(<<"agent">>, P3)}

MigrateInit ==
  /\ conversations \in LegacyRows /\ conversation_fts = EmptyBag /\ tool_usage = {}
  /\ file_index = {}
  /\ foreign_keys = TRUE
  /\ disk = [p \in Paths |-> NoFile]
  /\ pc = "idle" /\ files = {} /\ todo = {} /\ indexedPaths = {} /\ cur = NoCur
  /\ stats = ZeroStats
  /\ events = 0
  /\ last = NoOp /\ quiet = FALSE
  /\ rerun = NoRerun
  /\ reader = NoReader /\ answer = NoAnswer /\ grouping = NoGrouping
  /\ databaseBackend = Initialized
  /\ \E columns \in SUBSET MigratedColumns :
       schema = [columns |-> columns,
                 indexes |-> IF "parent_id" \in columns THEN MigratedIndexes ELSE {},
                 inits |-> 0, clean |-> FALSE, logged |-> {}, raised |-> FALSE]

\* DatabaseManager.initialize(); clean tells that no statement has failed in
\* this call or that none had in an earlier one
Initialize(fault) ==
  /\ schema.inits < MaxInits
  /\ LET done == _createSchema(conversations, schema, fault)
     IN /\ conversations' = done.convs
        /\ schema' = [done.sch EXCEPT !.inits = @ + 1,
                                      !.clean = schema.clean
                                                  \/ (done.sch.logged = {} /\ ~done.sch.raised)]
  /\ last' = Op("initialize", <<>>, {}, NoConversation, Empty)
  /\ UNCHANGED <<conversation_fts, tool_usage, file_index, foreign_keys>>
  /\ UNCHANGED <<disk, passVars, events, quiet, rerun, reader, answer, grouping,
                 databaseBackend>>

\* the records the indexer writes between two starts: a session and a
\* subagent of it
MigrateInputs ==
  {<<StoreRecord(SessionId(p), p, VB), _parseJsonlStreaming(VB.lines).searchableContent>> :
     p \in StorePaths}

\* the store is used between two starts
UseUpsertConversation(input, now) ==
  /\ schema.inits > 0 /\ schema.columns = MigratedColumns /\ ~schema.raised
  /\ CallUpsertConversation(input, now)
UseRemoveFile(p) ==
  /\ schema.inits > 0 /\ schema.columns = MigratedColumns /\ ~schema.raised
  /\ CallRemoveFile(p)

MigrateNext ==
  \/ \E fault \in Faults : Initialize(fault)
  \/ \E input \in MigrateInputs, now \in Clock : UseUpsertConversation(input, now)
  \/ \E p \in StorePaths : UseRemoveFile(p)

MigrateSpec == MigrateInit /\ [][MigrateNext]_vars

(***************************************************************************)
(* DetectSpec: one call of _detectSubagent on any path, absolute or         *)
(* relative, of at most MaxSegments segments.                               *)
(***************************************************************************)
MaxSegments == 3

\* the segments: the empty one before a leading separator, the directory
\* name, a session id, a name that is no id, a file name
Segments == {Empty, <<"subagents">>, <<"abc123-def456">>, <<"p">>, <<"agent", ".jsonl">>}
DetectPaths == UNION {[1..n -> Segments] : n \in 1..MaxSegments}

DetectInit ==
  /\ conversations = {} /\ conversation_fts = EmptyBag /\ tool_usage = {}
  /\ file_index = {}
  /\ foreign_keys = TRUE
  /\ disk = [p \in Paths |-> NoFile]
  /\ pc = "idle" /\ files = {} /\ todo = {} /\ indexedPaths = {} /\ cur = NoCur
  /\ stats = ZeroStats
  /\ events = 0
  /\ \E filePath \in DetectPaths : last = Op("pending", filePath, {}, NoConversation, Empty)
  /\ quiet = FALSE
  /\ rerun = NoRerun
  /\ reader = NoReader /\ answer = NoAnswer /\ grouping = NoGrouping
  /\ schema = Migrated /\ databaseBackend = Initialized

\* this._detectSubagent(filePath); text holds the warning, if one is written
Call_detectSubagent ==
  /\ last.op = "pending"
  /\ last' = Op("_detectSubagent", last.path, {},
                [NoConversation EXCEPT !.isSubagent = _detectSubagent(last.path).isSubagent,
                                       !.parentId = _detectSubagent(last.path).parentId],
                IF _detectSubagentWarns(last.path) THEN <<"parent ID looks invalid">> ELSE Empty)
  /\ UNCHANGED <<storeVars, disk, passVars, events, quiet, rerun>>
  /\ UNCHANGED callVars

DetectNext == Call_detectSubagent

DetectSpec == DetectInit /\ [][DetectNext]_vars

(***************************************************************************)
(* Claims about the indexer and the store it drives                         *)
(***************************************************************************)
(* RaceSpec: full passes during which the host application writes files and *)
(* the watcher calls indexSingleFile.  runFullIndex is suspended while      *)
(* _findJsonlFiles walks the tree (one project folder is listed at a time), *)
(* at fs.stat and while _indexFile reads a file; between the return of the  *)
(* walk and getIndexedFilePaths() nothing else can run.                     *)
(***************************************************************************)
RaceFolders == {FolderA, FolderB}
\* the .jsonl files that readdir and stat find under a project folder
FolderFiles(folder) == {p \in JsonlFiles : p[Len(projectsDir) + 1] = folder}
\* the states in which runFullIndex awaits
Suspended == pc \in {"walking", "loop", "parse"}

RaceInit ==
  /\ conversations = {} /\ conversation_fts = EmptyBag /\ tool_usage = {}
  /\ file_index = {}
  /\ foreign_keys = TRUE
  /\ disk = [p \in Paths |-> NoFile]
  /\ pc = "idle" /\ files = {} /\ todo = {} /\ indexedPaths = {} /\ cur = NoCur
  /\ stats = ZeroStats
  /\ events = 0
  /\ last = NoOp /\ quiet = FALSE
  /\ rerun = NoRerun
  /\ reader = NoReader /\ answer = NoAnswer /\ grouping = NoGrouping
  /\ schema = Migrated /\ databaseBackend = Initialized

\* runFullIndex is called: _findJsonlFiles(projectsDir) starts
WalkStart ==
  /\ pc = "idle"
  /\ pc' = "walking"
  /\ files' = {} /\ todo' = {} /\ indexedPaths' = {} /\ cur' = NoCur
  /\ stats' = ZeroStats
  /\ rerun' = [clean |-> quiet, prevErrors |-> stats.errors, prevFiles |-> files,
               tracked |-> {}, removed |-> <<>>, failed |-> {}, partial |-> {},
               cancelled |-> FALSE, statFailed |-> {}, prevFailed |-> rerun.failed,
               walked |-> {}]
  /\ quiet' = FALSE
  /\ last' = NoOp
  /\ UNCHANGED <<storeVars, disk, events>>
  /\ UNCHANGED callVars

\* _findJsonlFiles(itemPath) for one project folder: the files it holds now
WalkDir(folder) ==
  /\ pc = "walking" /\ folder \notin rerun.walked
  /\ files' = files \cup FolderFiles(folder)
  /\ rerun' = [rerun EXCEPT !.walked = @ \cup {folder}]
  /\ UNCHANGED <<storeVars, disk, pc, todo, indexedPaths, cur, stats, events, last, quiet>>
  /\ UNCHANGED callVars

\* the walk returns: stats.filesScanned = files.length and
\* indexedPaths = this.db.getIndexedFilePaths(), in one turn
WalkEnd ==
  /\ pc = "walking" /\ rerun.walked = RaceFolders
  /\ stats' = [stats EXCEPT !.filesScanned = Cardinality(files)]
  /\ indexedPaths' = getIndexedFilePaths(Store)
  /\ todo' = files
  /\ pc' = "loop"
  /\ rerun' = [rerun EXCEPT !.tracked = getIndexedFilePaths(Store)]
  /\ UNCHANGED <<storeVars, disk, files, cur, events, last, quiet>>
  /\ UNCHANGED callVars

\* the host application writes a file while the pass is suspended
RaceWriteFile(p, v) ==
  /\ Suspended /\ events < MaxEvents /\ v \in VersionsOf(p) /\ disk[p] # v
  /\ disk' = [disk EXCEPT ![p] = v]
  /\ events' = events + 1
  /\ UNCHANGED <<storeVars, passVars, last, quiet, rerun>>
  /\ UNCHANGED callVars

\* the watcher's indexSingleFile(p) completes while the pass is suspended
RaceIndexSingleFile(p, now) ==
  /\ Suspended /\ events < MaxEvents /\ disk[p] # NoFile
  /\ Commit(IndexedDb(Store, p, disk[p], now, Len(disk[p].lines)))
  /\ last' = UpsertOp(p, disk[p], Len(disk[p].lines))
  /\ events' = events + 1
  /\ UNCHANGED <<disk, passVars, quiet, rerun>>
  /\ UNCHANGED callVars

RaceNext ==
  \/ WalkStart
  \/ \E folder \in RaceFolders : WalkDir(folder)
  \/ WalkEnd
  \/ \E p \in Paths : SkipFile(p)
  \/ \E p \in Paths : StatFile(p)
  \/ \E now \in Clock : IndexFile(now)
  \/ FinishPass
  \/ \E p \in Paths, v \in Versions : RaceWriteFile(p, v)
  \/ \E p \in Paths, now \in Clock : RaceIndexSingleFile(p, now)

RaceSpec == RaceInit /\ [][RaceNext]_vars

(***************************************************************************)
(* BackendSpec: the life of a DatabaseBackend over an empty store and an    *)
(* empty source tree, so that a pass, a listing or a removal that runs      *)
(* finds nothing and changes nothing.  initialize() is suspended while it   *)
(* awaits runIndex(); other calls can be made meanwhile.                    *)
(***************************************************************************)
\* how many calls are made on the backend
MaxBackendOps == 4

\* the DatabaseBackend after its constructor
Constructed ==
  [db |-> "null", indexer |-> "null", isInitialized |-> FALSE,
   connection |-> "none", initializing |-> FALSE, calls |-> 0,
   op |-> "none", outcome |-> "none", before |-> FALSE]

\* the operations guarded by `if (!this.db)`
DbOperations ==
  {"getConversations", "searchConversations", "searchConversationsWithSnippets",
   "getConversation", "getSummary", "getProjects", "getToolUsageStats",
   "getConversationCount", "removeFile"}
\* the operations guarded by `if (!this.indexer)`
IndexerOperations == {"runIndex", "indexFile"}

BackendInit ==
  /\ conversations = {} /\ conversation_fts = EmptyBag /\ tool_usage = {}
  /\ file_index = {}
  /\ foreign_keys = TRUE
  /\ disk = [p \in Paths |-> NoFile]
  /\ pc = "idle" /\ files = {} /\ todo = {} /\ indexedPaths = {} /\ cur = NoCur
  /\ stats = ZeroStats
  /\ events = 0
  /\ last = NoOp /\ quiet = FALSE
  /\ rerun = NoRerun
  /\ reader = NoReader /\ answer = NoAnswer /\ grouping = NoGrouping
  /\ schema = Migrated
  /\ databaseBackend = Constructed

\* the call op is made and ends with outcome; before is isInitialized at the
\* time of the call
Called(b, op, outcome) ==
  [b EXCEPT !.calls = databaseBackend.calls + 1, !.op = op, !.outcome = outcome,
            !.before = databaseBackend.isInitialized]

\* the catch block of initialize(): close the manager, forget it and the indexer
InitializeFailed(b) ==
  [b EXCEPT !.connection = IF b.db # "null" THEN "null" ELSE @,
            !.db = "null", !.indexer = "null"]

\* initialize() up to `await this.runIndex()`; opens is whether
\* DatabaseManager.initialize() succeeds
BackendInitialize(opens) ==
  /\ databaseBackend.calls < MaxBackendOps /\ ~databaseBackend.initializing
  /\ databaseBackend' =
       IF databaseBackend.isInitialized
       THEN Called(databaseBackend, "initialize", "returned")
       ELSE IF opens
       THEN Called([databaseBackend EXCEPT !.db = "DatabaseManager", !.connection = "open",
                                           !.indexer = "Indexer", !.initializing = TRUE],
                   "initialize", "pending")
       ELSE Called(InitializeFailed([databaseBackend EXCEPT !.db = "DatabaseManager",
                                                            !.connection = "none"]),
                   "initialize", "raised")
  /\ UNCHANGED <<storeVars, disk, passVars, events, last, quiet, rerun>>
  /\ UNCHANGED <<reader, answer, grouping, schema>>

\* the runIndex() that initialize() awaits ends; passes is whether the pass
\* returned (it raises TypeError when it gets to the store after a close())
BackendInitializeEnd(passes) ==
  /\ databaseBackend.initializing
  /\ passes => databaseBackend.indexer # "null"
  /\ databaseBackend' =
       IF passes
       THEN [databaseBackend EXCEPT !.initializing = FALSE, !.isInitialized = TRUE,
                                    !.op = "initialize", !.outcome = "returned"]
       ELSE [InitializeFailed(databaseBackend)
               EXCEPT !.initializing = FALSE, !.op = "initialize", !.outcome = "raised"]
  /\ UNCHANGED <<storeVars, disk, passVars, events, last, quiet, rerun>>
  /\ UNCHANGED <<reader, answer, grouping, schema>>

\* close(): the indexer field is left as it is
BackendClose ==
  /\ databaseBackend.calls < MaxBackendOps
  /\ databaseBackend' =
       Called([databaseBackend EXCEPT
                 !.connection = IF databaseBackend.db # "null" THEN "null" ELSE @,
                 !.db = "null", !.isInitialized = FALSE],
              "close", "returned")
  /\ UNCHANGED <<storeVars, disk, passVars, events, last, quiet, rerun>>
  /\ UNCHANGED <<reader, answer, grouping, schema>>

\* a listing, a search, a get, a statistic or removeFile
BackendDbOperation(op) ==
  /\ databaseBackend.calls < MaxBackendOps
  /\ databaseBackend' =
       Called(databaseBackend, op,
              IF databaseBackend.db = "null" THEN "Database not initialized"
              ELSE "returned")
  /\ UNCHANGED <<storeVars, disk, passVars, events, last, quiet, rerun>>
  /\ UNCHANGED <<reader, answer, grouping, schema>>

\* runIndex(): runFullIndex walks the tree, then getIndexedFilePaths() calls
\* prepare on the manager's connection: TypeError when that is null, and
\* runFullIndex raises it again.  indexFile(): indexSingleFile catches
\* whatever fs.stat, the parser or the store raises and returns
\* {success: false, ...}; no file exists in this tree
BackendIndexerOperation(op) ==
  /\ databaseBackend.calls < MaxBackendOps
  /\ databaseBackend' =
       Called(databaseBackend, op,
              IF databaseBackend.indexer = "null" THEN "Database not initialized"
              ELSE IF op = "indexFile" THEN "returned success: false"
              ELSE IF databaseBackend.connection = "open" THEN "returned"
              ELSE "TypeError")
  /\ UNCHANGED <<storeVars, disk, passVars, events, last, quiet, rerun>>
  /\ UNCHANGED <<reader, answer, grouping, schema>>

BackendNext ==
  \/ \E opens \in BOOLEAN : BackendInitialize(opens)
  \/ \E passes \in BOOLEAN : BackendInitializeEnd(passes)
  \/ BackendClose
  \/ \E op \in DbOperations : BackendDbOperation(op)
  \/ \E op \in IndexerOperations : BackendIndexerOperation(op)

BackendSpec == BackendInit /\ [][BackendNext]_vars

(***************************************************************************)
\* the last store operation was an upsert of this path, mtime and size
JustUpserted == last.op = "upsert"

\* a pass has returned that started right after another returned pass, both
\* found every .jsonl file of the tree and counted no error
SecondPassDone ==
  /\ pc = "idle" /\ quiet /\ rerun.clean
  /\ rerun.prevErrors = 0 /\ stats.errors = 0
  /\ rerun.prevFiles = JsonlFiles /\ files = JsonlFiles

\* C1: a full pass that starts right after a completed pass, with no file
\* created, modified or deleted in between, skips every file it scans and
\* indexes none, whatever the files' mtime and size are.
C1_SecondPassSkipsAll ==
  SecondPassDone => (stats.filesSkipped = stats.filesScanned /\ stats.filesIndexed = 0)

\* the (mtime, size) arguments needs_indexing is asked about
StatValues ==
  {<<v.mtime, v.size>> : v \in Versions} \cup {<<now, v.size>> : now \in Clock, v \in Versions}

\* C2: right after upsert_session of a record with file_path p, last_modified m
\* and file_size s, needs_indexing(p, m, s) is false and needs_indexing(p, m', s')
\* is true for every other (m', s').
C2_NeedsIndexingAfterUpsert ==
  JustUpserted =>
    LET c == last.conversation IN
    /\ ~needsIndexing(Store, c.filePath, c.lastModified, c.fileSize)
    /\ \A ms \in StatValues :
         ms # <<c.lastModified, c.fileSize>> => needsIndexing(Store, c.filePath, ms[1], ms[2])

\* no row of any table refers to a session id of xs, as its own id or as parent
NothingRefersTo(xs) ==
  /\ \A r \in conversations : r.id \notin xs /\ r.parent_id \notin xs
  /\ \A r \in DOMAIN conversation_fts : r.conversation_id \notin xs
  /\ \A t \in tool_usage : t.conversation_id \notin xs

\* no session row and no file-tracking row has the path
PathGone(p) ==
  /\ \A r \in conversations : r.file_path # p
  /\ \A f \in file_index : f.file_path # p

\* C3: after remove_file(p) for a path p that had a session x, no session, FTS,
\* tool or tracking row refers to x or p and no session has parent_id = x; and
\* a full pass that finds a tracked path absent from disk counts it once in
\* removed and leaves no session and no tracking row for it.
C3_RemoveFileLeavesNothing ==
  /\ (last.op = "removeFile" /\ last.ids # {}) =>
       (NothingRefersTo(last.ids) /\ PathGone(last.path))
  /\ (pc = "idle" /\ quiet) =>
       /\ stats.filesRemoved = Cardinality(indexedPaths)
       /\ NothingRefersTo(last.ids)
       /\ \A p \in rerun.tracked :
            disk[p] = NoFile => (p \in indexedPaths /\ PathGone(p))

\* a pass has removed the session of one tracked file that is gone from disk
C3_PassRemovedSession ==
  /\ pc = "idle" /\ quiet /\ last.ids # {} /\ stats.filesRemoved = 1
  /\ \E p \in rerun.tracked : disk[p] = NoFile

\* the effect of remove_file(p) on the four tables, from the state before
C4_Frame(p) ==
  LET x == {r.id : r \in {s \in conversations : s.file_path = p}}
      kept == {r \in conversations : r.id \notin x}
      keptFts == {r \in DOMAIN conversation_fts : r.conversation_id \notin x}
  IN /\ conversations' =
          {IF r.parent_id \in x THEN [r EXCEPT !.parent_id = Null] ELSE r : r \in kept}
     /\ Cardinality(conversations') = Cardinality(conversations) - Cardinality(x)
     /\ conversation_fts' = [r \in keptFts |-> conversation_fts[r]]
     /\ tool_usage' = {t \in tool_usage : t.conversation_id \notin x}
     /\ file_index' = {f \in file_index : f.file_path # p}

\* C4: remove_file(p) of a parent session sets parent_id to null in every
\* session whose parent_id was the removed id, deletes none of them, and leaves
\* their other fields and every unrelated session, FTS row, tool row and
\* tracking row unchanged.
C4_RemoveFileFrame == [][\A p \in Paths : WatcherRemoveFile(p) => C4_Frame(p)]_vars

\* remove_file has removed a parent and its subagent is still there, parent_id null
C4_ChildOrphaned ==
  /\ last.op = "removeFile" /\ last.ids # {}
  /\ \E r \in conversations :
       r.is_subagent /\ r.parent_id = Null /\ _detectSubagent(r.file_path).parentId \in last.ids

\* the filename without its extension
Stem(name) == IF EndsWithJsonl(name) THEN SubSeq(name, 1, Len(name) - 1) ELSE name

\* the folder that holds the 'subagents' folder of the path
ParentFolder(file_path) == file_path[Len(file_path) - 2]

\* C5 as stated: every session row with is_subagent = true has a parent_id
\* different from null and id = parent_id ++ "_" ++ filename without extension.
C5_SubagentHasParent ==
  \A r \in conversations :
    r.is_subagent =>
      (r.parent_id # Null /\ r.id = r.parent_id \o <<"_">> \o Stem(Basename(r.file_path)))

\* C5 amended: every session row with is_subagent = true has
\* id = P ++ "_" ++ filename without extension, P the folder that holds its
\* 'subagents' folder, and its parent_id is P or null (null once remove_file
\* has removed session P).
C5_SubagentIdFromFolder ==
  \A r \in conversations :
    r.is_subagent =>
      /\ r.id = ParentFolder(r.file_path) \o <<"_">> \o Stem(Basename(r.file_path))
      /\ r.parent_id \in {ParentFolder(r.file_path), Null}
      /\ (JustUpserted /\ last.path = r.file_path) => r.parent_id = ParentFolder(r.file_path)

\* a pass has returned and the store holds a subagent whose parent_id is null
C5_OrphanAfterPass ==
  pc = "idle" /\ quiet /\ \E r \in conversations : r.is_subagent /\ r.parent_id = Null

\* C6: after a full pass with errors = 0 the store holds exactly one session
\* row for each discovered .jsonl file, also for files of the same name in
\* different project folders.
C6_OneSessionPerFile ==
  (pc = "idle" /\ quiet /\ stats.errors = 0) =>
    \A p \in files : Cardinality({r \in conversations : r.file_path = p}) = 1

\* the path segment immediately under the projects root
FolderOf(file_path) == file_path[Len(projectsDir) + 1]

\* the non-null cwds of the sessions of a folder
CwdsIn(folder) ==
  {r.cwd : r \in {x \in conversations : FolderOf(x.file_path) = folder /\ x.cwd # NullPath}}

\* the cwds of the least string length
Shortest(cwds) == {c \in cwds : \A d \in cwds : PathLength(c) <= PathLength(d)}

\* C7 as stated: at the end of a full pass all sessions of the same encoded
\* folder have the same project, equal to the basename of the shortest cwd of
\* the group whenever a session of the group has a cwd.
C7_FolderAgrees ==
  (pc = "idle" /\ quiet) =>
    \A r, s \in conversations :
      FolderOf(r.file_path) = FolderOf(s.file_path) =>
        /\ r.project = s.project
        /\ CwdsIn(FolderOf(r.file_path)) # {} =>
             \E c \in Shortest(CwdsIn(FolderOf(r.file_path))) : r.project = Basename(c)

\* C7 amended: at the end of a full pass, in every encoded folder where some
\* session has a cwd and the shortest cwd has a non-empty basename, all
\* sessions have that basename as project.
C7_ResolvedFolderAgrees ==
  (pc = "idle" /\ quiet) =>
    \A r \in conversations :
      LET cwds == CwdsIn(FolderOf(r.file_path)) IN
      (cwds # {} /\ \A c \in Shortest(cwds) : Basename(c) # Empty) =>
        \E c \in Shortest(cwds) :
          \A s \in conversations :
            FolderOf(s.file_path) = FolderOf(r.file_path) => s.project = Basename(c)

\* a pass has changed the project of a session
C7_PassResolved == pc = "idle" /\ quiet /\ stats.projectNamesResolved > 0

(***************************************************************************)
(* Claims about the Store on its own (StoreSpec)                            *)
(***************************************************************************)
\* C8: after any completed Store operation, in any order, every session row's
\* file_path has exactly one file-tracking row.
C8_OneTrackingRowPerSession ==
  \A r \in conversations :
    Cardinality({f \in file_index : f.file_path = r.file_path}) = 1

\* remove_session has left a tracking row without session while another
\* session is still there
C8_TrackedWithoutSession ==
  /\ last.op = "removeConversation"
  /\ conversations # {}
  /\ \E f \in file_index : \A r \in conversations : r.file_path # f.file_path

\* the number of FTS rows of a session id
FtsCount(fts, id) == SumCounts(fts, {r \in DOMAIN fts : r.conversation_id = id})

\* C9: after any sequence of upsert_session, remove_session and remove_file
\* calls, every session has at most one FTS row and every FTS row and tool row
\* belongs to a session row.
C9_NoOrphanRows ==
  /\ \A r \in conversations : FtsCount(conversation_fts, r.id) <= 1
  /\ \A r \in DOMAIN conversation_fts : \E c \in conversations : c.id = r.conversation_id
  /\ \A t \in tool_usage : \E c \in conversations : c.id = t.conversation_id

\* what upsert_session(record, text) leaves, from the state before
C10_Effect(record, text) ==
  IF record.filename = Null
  THEN UNCHANGED storeVars
  ELSE
    /\ {t \in tool_usage' : t.conversation_id = record.id}
         = {[conversation_id |-> record.id, tool_name |-> record.tools[i][1],
             call_count |-> record.tools[i][2]] : i \in 1..Len(record.tools)}
    /\ FtsCount(conversation_fts', record.id) = IF IsBlank(text) THEN 0 ELSE 1
    /\ \E r \in conversations' :
         /\ r.id = record.id /\ r.file_path = record.filePath
         /\ r.last_modified = record.lastModified /\ r.file_size = record.fileSize
         /\ r.message_count = record.messageCount
    /\ \E f \in file_index' :
         /\ f.file_path = record.filePath
         /\ f.mtime = record.lastModified /\ f.size = record.fileSize

\* C10: upsert_session(record, text) is an atomic full replacement: the tool
\* rows of record.id are exactly the record's counts, there is one FTS row for
\* record.id when text is non-blank and none otherwise, the session row and
\* the tracking row carry the record's values; when a step fails nothing
\* changes.
C10_UpsertReplaces ==
  [][\A input \in StoreInputs, now \in Clock :
       CallUpsertConversation(input, now) => C10_Effect(input[1], input[2])]_vars

(***************************************************************************)
(* Claims about removal, failures and subagent ids (Spec)                   *)
(***************************************************************************)
\* the effect of remove_session(id) on the four tables, from the state before
C11_Frame(id) ==
  /\ conversations' = {r \in conversations : r.id # id}
  /\ conversation_fts' =
       [r \in {x \in DOMAIN conversation_fts : x.conversation_id # id} |-> conversation_fts[r]]
  /\ tool_usage' = {t \in tool_usage : t.conversation_id # id}
  /\ file_index' = file_index

\* C11: remove_session(id) deletes the session row, its tool rows and its FTS
\* row and leaves the file-tracking table unchanged; and the full pass that
\* follows finds needs_indexing false for the unmodified file of the session.
C11_RemoveSessionFrame ==
  [][/\ \A id \in {SessionId(p) : p \in Paths} : ApiRemoveConversation(id) => C11_Frame(id)
     /\ \A p \in Paths : StatFile(p) => rerun.removed # p]_vars

\* C12: a full pass never removes the session of a file that still exists on
\* disk, including a file whose stat or directory-entry access failed during
\* the pass.
C12_PassKeepsSessionsOfExistingFiles ==
  [][FinishPass =>
       \A r \in conversations :
         disk[r.file_path] # NoFile =>
           \E r2 \in conversations' : r2.id = r.id /\ r2.file_path = r.file_path]_vars

\* the files of the last pass whose stat, read or upsert failed
C13_Failed == rerun.failed \cup rerun.partial

\* C13: in a full pass a failure while stat-ing, parsing or upserting one file
\* adds one to errors and does not stop the pass: when the pass returns,
\* errors is the number of files that failed and every other discovered file
\* was indexed or skipped, so that its tracking row has the size and mtime the
\* file has on disk.
C13_FailureCountedPassContinues ==
  (pc = "idle" /\ quiet) =>
    /\ stats.errors = Cardinality(C13_Failed)
    /\ stats.filesIndexed + stats.filesSkipped = Cardinality(files \ C13_Failed)
    /\ \A p \in files \ C13_Failed :
         \E f \in file_index :
           /\ f.file_path = p /\ f.size = disk[p].size
           /\ f.mtime = disk[p].mtime \/ disk[p].mtime = 0

\* C14: when the read stream of a log file raises, at open or in the middle
\* of reading, the parser rejects: the pass counts the file in errors, not in
\* indexed, upsert_session is not called, and the session, FTS, tool and
\* tracking rows stay as they were.
C14_StreamErrorRejects ==
  [][\A k \in ReadCounts, now \in Clock :
       IndexFileStreamError(k, now) =>
         /\ stats'.errors = stats.errors + 1
         /\ stats'.filesIndexed = stats.filesIndexed
         /\ UNCHANGED storeVars]_vars

\* the step indexes the file at p: in a pass, after a read error, or by the watcher
C17_Indexes(p) ==
  \/ cur.path = p /\ \E now \in Clock : IndexFile(now)
  \/ cur.path = p /\ \E k \in ReadCounts, now \in Clock : IndexFileStreamError(k, now)
  \/ \E now \in Clock : IndexSingleFile(p, now)
  \/ \E k \in ReadCounts, now \in Clock : IndexSingleFileStreamError(p, k, now)

\* the row is the subagent session of the file at p
C17_SessionOf(r, p) ==
  /\ r.file_path = p
  /\ r.id = ParentFolder(p) \o <<"_">> \o Stem(Basename(p))
  /\ r.is_subagent
  /\ r.parent_id = ParentFolder(p)

\* C17: two subagent files with the same filename under two different parent
\* folders are indexed as two distinct sessions with ids "<parentA>_<stem>"
\* and "<parentB>_<stem>", both with is_subagent = true and parent_id equal to
\* their own parent folder name; indexing one leaves the session of the other
\* as it was.
C17_SameNameSubagentsDistinct ==
  [][\A p \in {P3, P4} :
       C17_Indexes(p) =>
         /\ \E r \in conversations' : C17_SessionOf(r, p)
         /\ \A q \in {P3, P4} \ {p} :
              {r \in conversations' : r.file_path = q} = {r \in conversations : r.file_path = q}
         /\ \A r, r2 \in conversations' :
              (r.file_path = P3 /\ r2.file_path = P4) => r.id # r2.id]_vars

\* both files are indexed and the store holds their two sessions
C17_BothSubagentsIndexed ==
  /\ Basename(P3) = Basename(P4) /\ ParentFolder(P3) # ParentFolder(P4)
  /\ \E r \in conversations : C17_SessionOf(r, P3)
  /\ \E r \in conversations : C17_SessionOf(r, P4)
  /\ JustUpserted /\ last.path \in {P3, P4}

(***************************************************************************)
(* Claims about the parser (ParseSpec)                                      *)
(***************************************************************************)
\* the lines that are valid JSON
C15_ValidLines(lines) == SelectSeq(lines, LAMBDA l : l.kind # "garbage")

\* the ParseResult without the handler's two local counters
C15_Returned(r) == [r EXCEPT !.lineCount = 0, !.parseErrorCount = 0]

\* C15: malformed content never surfaces as an error: whatever subset of the
\* lines is not valid JSON, the parser resolves with the ParseResult of the
\* valid lines, the pass counts the file as indexed with errors = 0, and when
\* every line is invalid the session row has message_count = 0 and zero
\* tokens and there is no FTS row and no tool row.  (Files whose stream does
\* not fail.)
C15_MalformedNeverAnError ==
  (reader.promise = "resolved" /\ ~reader.streamError) =>
    /\ C15_Returned(reader.result)
         = C15_Returned(_parseJsonlStreaming(C15_ValidLines(reader.lines)))
    /\ pc = "loop" =>
         /\ stats.errors = 0 /\ stats.filesIndexed = 1
         /\ \E r \in conversations : r.file_path = P1
         /\ (\A i \in 1..Len(reader.lines) : reader.lines[i].kind = "garbage") =>
              /\ \A r \in conversations :
                   /\ r.message_count = 0
                   /\ r.tokens_total = 0 /\ r.tokens_input = 0 /\ r.tokens_output = 0
              /\ conversation_fts = EmptyBag
              /\ tool_usage = {}

\* a file with invalid lines around a valid message line has been indexed
C15_MixedFileIndexed ==
  /\ pc = "loop" /\ ~reader.streamError
  /\ Len(reader.lines) = 3
  /\ reader.lines[1] = GarbageLine /\ reader.lines[2] = AssistantTools
  /\ reader.lines[3] = GarbageLine
  /\ \E r \in conversations : r.message_count = 1 /\ r.tokens_total = 3

RECURSIVE C16_Sum(_, _)
\* the sum of usage.input_tokens or usage.output_tokens over the assistant
\* message lines, a missing value counted as zero; a line whose processing
\* raises is skipped whole
C16_Sum(lines, field) ==
  IF lines = <<>> THEN 0
  ELSE LET l == Head(lines)
           raises == l.content.kind = "array"
                       /\ \E i \in 1..Len(l.content.blocks) : l.content.blocks[i] = NullBlock
           counted == l.kind = "json" /\ l.message /\ l.type = "assistant" /\ l.usage /\ ~raises
           v == IF field = "input" THEN l.input ELSE l.output
       IN (IF counted /\ v # Undef THEN v ELSE 0) + C16_Sum(Tail(lines), field)

\* C16: for every session row produced by indexing,
\* tokens_total = tokens_input + tokens_output, input and output are the sums
\* of usage.input_tokens and usage.output_tokens over the assistant message
\* lines the parser read (token counts are naturals, a missing one counts as
\* zero), and all three are non-negative.
C16_TokensAddUp ==
  \A r \in conversations :
    LET read == SubSeq(reader.lines, 1, reader.read) IN
    /\ r.tokens_total = r.tokens_input + r.tokens_output
    /\ r.tokens_input = C16_Sum(read, "input")
    /\ r.tokens_output = C16_Sum(read, "output")
    /\ r.tokens_input >= 0 /\ r.tokens_output >= 0 /\ r.tokens_total >= 0

\* a row built from two assistant lines, one without input_tokens, and a user
\* line that carries usage
C16_RowWithMissingInput ==
  /\ \E i, j, k \in 1..Len(reader.lines) :
       /\ reader.lines[i] = AssistantTools /\ reader.lines[j] = AssistantNoInput
       /\ reader.lines[k] = UserWithUsage
  /\ \E r \in conversations :
       r.tokens_input = 1 /\ r.tokens_output = 5 /\ r.tokens_total = 6

(***************************************************************************)
(* Claims about the sanitizer (SanitizeSpec)                                *)
(***************************************************************************)
RECURSIVE C20_WordLen(_)
\* how many word characters the string starts with
C20_WordLen(s) ==
  IF s = <<>> \/ Head(s) \notin WordChars THEN 0 ELSE 1 + C20_WordLen(Tail(s))

RECURSIVE C20_Tokens(_)
\* the string cut into its words (maximal runs of letters, digits and
\* underscores) and the single characters between them
C20_Tokens(s) ==
  IF s = <<>> THEN <<>>
  ELSE LET n == IF C20_WordLen(s) = 0 THEN 1 ELSE C20_WordLen(s)
       IN <<SubSeq(s, 1, n)>> \o C20_Tokens(SubSeq(s, n + 1, Len(s)))

\* the token is AND, OR, NOT or NEAR in any mix of cases
C20_IsOperator(tok) ==
  \E a \in 1..Len(Operators) :
    /\ Len(tok) = Len(Operators[a])
    /\ \A j \in 1..Len(tok) : tok[j] \in {Operators[a][j], LowerCase[Operators[a][j]]}

RECURSIVE C20_Fields(_, _)
\* the fields between white space of the tokens left once the special
\* characters and the operators are taken out; field is the one being read
C20_Fields(toks, field) ==
  IF toks = <<>> THEN IF field = <<>> THEN <<>> ELSE <<field>>
  ELSE LET t == Head(toks)
           gap == C20_IsOperator(t) \/ (Len(t) = 1 /\ t[1] \in SpecialChars \cup SpaceChars)
       IN IF gap
          THEN (IF field = <<>> THEN <<>> ELSE <<field>>) \o C20_Fields(Tail(toks), <<>>)
          ELSE C20_Fields(Tail(toks), field \o t)

\* C20: for every query the sanitizer's result is what is left when each of
\* the characters " : ( ) ^ * - + is replaced with a space, every standalone
\* word equal (case-insensitively) to AND, OR, NOT or NEAR is removed, white
\* space runs are collapsed and the ends trimmed; it is the sentinel "*"
\* exactly when nothing is left, and otherwise it holds none of those
\* characters and no standalone operator.  (A word is standalone when the
\* characters next to it are not letters, digits or underscores; the place
\* of a removed word separates its neighbours like white space.)
C20_SanitizerResult ==
  answer.op = "_escapeFtsQuery" =>
    LET left == C20_Fields(C20_Tokens(answer.query), <<>>)
        safe == answer.safeQuery
    IN /\ safe = IF left = <<>> THEN <<"*">> ELSE Join(left, <<" ">>)
       /\ (safe = <<"*">>) <=> (left = <<>>)
       /\ safe # <<"*">> =>
            /\ \A i \in 1..Len(safe) : safe[i] \notin SpecialChars
            /\ \A i \in 1..Len(C20_Tokens(safe)) : ~C20_IsOperator(C20_Tokens(safe)[i])

\* a query with two words and, between a special character and a comma, an
\* operator has been sanitized
C20_OperatorBeforeComma ==
  /\ answer.op = "_escapeFtsQuery"
  /\ answer.query = <<"x", "*", "N", "o", "T", ",", "x">>
  /\ answer.safeQuery = <<"x", " ", ",", "x">>

(***************************************************************************)
(* Claims about the queries (QuerySpec)                                     *)
(***************************************************************************)
\* C18: an empty query given to the search-with-snippets path returns the
\* empty list, never the listing, whatever the store holds and whatever the
\* options are.
C18_EmptyQueryReturnsNothing ==
  (answer.op = "searchConversationsWithSnippets" /\ answer.query = Empty) =>
    answer.rows = <<>>

\* the empty query was given with includeSubagents while the store held a
\* session with text and a subagent
C18_EmptyQueryOnFilledStore ==
  /\ answer.op = "searchConversationsWithSnippets" /\ answer.query = Empty
  /\ answer.options.includeSubagents /\ answer.options.limit = 2
  /\ \E r, r2 \in conversations : ~r.is_subagent /\ r2.is_subagent
  /\ conversation_fts # EmptyBag
  /\ answer.rows = <<>>

\* the sessions a query that matches everything can return
C19_Everything == {r \in conversations : answer.options.includeSubagents \/ ~r.is_subagent}

\* C19: a query of white space only or of operators only is sanitized to the
\* wildcard and matches everything: search-with-snippets returns up to
\* `limit` rows of the store (`limit` being options.limit, 50 when not given).
C19_BlankQueryMatchesEverything ==
  (/\ answer.op = "searchConversationsWithSnippets"
   /\ ~Falsy(answer.query)
   /\ answer.safeQuery = <<"*">>) =>
    LET limit == OrDefault(answer.options.limit, SearchDefaultLimit)
        offset == OrDefault(answer.options.offset, 0)
        rest == IF Cardinality(C19_Everything) > offset
                THEN Cardinality(C19_Everything) - offset ELSE 0
    IN /\ Len(answer.rows) = Min(limit, rest)
       /\ \A i \in 1..Len(answer.rows) : \E r \in C19_Everything : r.id = answer.rows[i].id
       /\ answer.limit = limit

(***************************************************************************)
(* C21.  A search whose FTS statement fails falls back on the listing.      *)
(***************************************************************************)
\* the FTS statement of the answered search was run and failed
C21_FtsFailed ==
  /\ answer.op \in {"searchConversations", "searchConversationsWithSnippets"}
  /\ ~Falsy(answer.query) /\ ~IsBlank(answer.query)
  /\ answer.malformed \/ FtsRejects(answer.safeQuery)

\* C21: a failure of the FTS engine during a search (the query is rejected,
\* the index is malformed) never raises to the caller: the search returns the
\* unranked listing for the same limit, offset and includeSubagents options,
\* and its rows carry neither a snippet nor a relevance
C21_FtsFailureNeverRaises ==
  C21_FtsFailed =>
    /\ ~answer.raised
    /\ ~answer.ranked /\ ~answer.snippets
    /\ answer.rows \in getConversations(Store, answer.options)

(***************************************************************************)
(* C22.  The ordering of the listing.                                       *)
(***************************************************************************)
\* rows is in the order of column col, descending or ascending
C22_Ordered(rows, col, desc) ==
  \A i, j \in 1..Len(rows) :
    i < j => LET a == IF col = "created" THEN rows[i].created
                      ELSE IF col = "tokens_total" THEN rows[i].tokens
                      ELSE rows[i].lastModified
                 b == IF col = "created" THEN rows[j].created
                      ELSE IF col = "tokens_total" THEN rows[j].tokens
                      ELSE rows[j].lastModified
             IN IF desc THEN a >= b ELSE a <= b

\* C22: getConversations never raises, whatever sortBy and sortOrder are: a
\* sortBy outside the five columns orders by last_modified, a sortOrder
\* other than ASC in any case orders descending
C22_ListingNeverRaises ==
  answer.op = "getConversations" =>
    /\ ~answer.raised
    /\ C22_Ordered(answer.rows,
                   IF answer.options.sortBy \in {<<"created">>, <<"tokens_total">>}
                   THEN answer.options.sortBy[1] ELSE "last_modified",
                   answer.options.sortOrder \notin
                     {<<"A", "S", "C">>, <<"a", "s", "c">>, <<"A", "s", "c">>})

(***************************************************************************)
(* C23.  Subagents in the listing and in the searches.                      *)
(***************************************************************************)
\* the sessions the answered call selects among: all of them for a listing,
\* those with a matching FTS row for a ranked search
C23_Candidates ==
  {c \in conversations :
     answer.ranked =>
       \E f \in DOMAIN conversation_fts :
         /\ f.conversation_id = c.id
         /\ Words(answer.safeQuery, <<>>) \subseteq Words(f.content, <<>>)}

\* C23: without includeSubagents the listing and the two searches return no
\* session whose is_subagent is true; with includeSubagents they return
\* parents and subagents alike: a list that is not cut by limit or offset
\* holds every candidate, subagent or not
C23_SubagentFilter ==
  (/\ answer.op \in {"getConversations", "searchConversations",
                     "searchConversationsWithSnippets"}
   /\ ~answer.raised) =>
    /\ ~answer.options.includeSubagents =>
         \A i \in 1..Len(answer.rows) : ~answer.rows[i].isSubagent
    /\ (/\ answer.options.includeSubagents
        /\ answer.options.offset = Undef
        /\ Len(answer.rows) < answer.limit) =>
         \A c \in C23_Candidates : \E i \in 1..Len(answer.rows) : answer.rows[i].id = c.id

\* a ranked search with includeSubagents returned a parent and a subagent
C23_ParentAndSubagentFound ==
  /\ answer.op = "searchConversations" /\ answer.ranked
  /\ answer.options.includeSubagents
  /\ \E i, j \in 1..Len(answer.rows) :
       answer.rows[i].isSubagent /\ ~answer.rows[j].isSubagent
\* a listing without includeSubagents on a store that holds a subagent
C23_SubagentHidden ==
  /\ answer.op = "getConversations" /\ ~answer.options.includeSubagents
  /\ \E c \in conversations : c.is_subagent
  /\ answer.rows # <<>>

(***************************************************************************)
(* C24, C25.  Hierarchy grouping.                                           *)
(***************************************************************************)
\* the subagents of the list given whose parentId is id, in the order given
C24_SubagentsOf(id) ==
  SelectSeq(grouping.input, LAMBDA c : c.isSubagent /\ c.parentId = id)
\* the subagents of the list given that no entry of out is the parent of
C24_Orphans(out) ==
  SelectSeq(grouping.input,
            LAMBDA c : c.isSubagent /\ \A i \in 1..Len(out) :
                                         out[i].isSubagent \/ out[i].id # c.parentId)
\* seq is in lastModified descending order
C24_Descending(seq) ==
  \A i, j \in 1..Len(seq) : i < j => seq[i].lastModified >= seq[j].lastModified
\* out is built as the reference steps build it
C24_Reference(out) ==
  LET parentsAt == {i \in 1..Len(out) : ~out[i].isSubagent}
      orphans == C24_Orphans(out)
      body == Len(out) - Len(orphans)
  IN /\ C24_Descending(SelectSeq(out, LAMBDA c : ~c.isSubagent))
     /\ \A c \in {grouping.input[i] : i \in 1..Len(grouping.input)} :
          ~c.isSubagent => \E i \in parentsAt : out[i].id = c.id /\ ~out[i].isStub
     /\ \A i \in parentsAt :
          LET own == C24_SubagentsOf(out[i].id)
          IN /\ i + Len(own) <= body
             /\ C24_Descending(SubSeq(out, i + 1, i + Len(own)))
             /\ \A k \in 1..Len(own) :
                  /\ out[i + k].isSubagent /\ out[i + k].parentId = out[i].id
                  /\ Cardinality({n \in 1..Len(own) : own[n] = out[i + k]})
                       = Cardinality({n \in 1..Len(own) : out[i + n] = out[i + k]})
             /\ i + Len(own) < body => ~out[i + Len(own) + 1].isSubagent
     /\ body >= 0 /\ (body > 0 => ~out[1].isSubagent)
     /\ SubSeq(out, body + 1, Len(out)) = orphans

\* C24: for every list of parents and subagents the grouping returns the
\* sequence of the reference steps: the parents, real and stub, in
\* lastModified descending order, each followed at once by its own subagents
\* in lastModified descending order, and the subagents without parent or
\* stub after all parents
C24_GroupingFollowsReference ==
  \A n \in 1..Len(grouping.outputs) : C24_Reference(grouping.outputs[n])

\* C24 as the code has it: a list without subagents is returned as it was
\* given, in the order given; every other list is grouped as the reference
\* steps say
C24_GroupingAsCoded ==
  \A n \in 1..Len(grouping.outputs) :
    IF \A i \in 1..Len(grouping.input) : ~grouping.input[i].isSubagent
    THEN grouping.outputs[n] = grouping.input
    ELSE C24_Reference(grouping.outputs[n])

\* a list of two parents, the older first, and a subagent whose parent is in
\* the store only has been grouped: the stub stands between the parents
C24_StubBetweenParents ==
  /\ Len(grouping.outputs) >= 1
  /\ grouping.input = <<ParentPa, ParentPb, Conv(<<"pq", "_", "x">>, TRUE, <<"pq">>, 3)>>
  /\ Len(grouping.outputs[1]) = 4
  /\ grouping.outputs[1][1].id = <<"pb">>
  /\ grouping.outputs[1][2].id = <<"pq">> /\ grouping.outputs[1][2].isStub
  /\ grouping.outputs[1][3].id = <<"pq", "_", "x">>
  /\ grouping.outputs[1][4].id = <<"pa">>

\* the subagents that follow the parent at position i of out
C25_Run(out, i) == SubSeq(out, i + 1, i + Len(C24_SubagentsOf(out[i].id)))

C26_Fails(p) ==
  \/ IndexSingleFileFail(p)
  \/ \E k \in ReadCounts, now \in Clock : IndexSingleFileStreamError(p, k, now)

\* C26: indexSingleFile(path) never raises: it returns success = true only
\* after the session of the file has been upserted, and on any failure
\* (missing file, stat, parse or store error) it returns success = false,
\* leaving the store unchanged
C26_IndexSingleFileResult ==
  [][\A p \in Paths :
       /\ (\E now \in Clock : IndexSingleFile(p, now)) =>
            /\ last'.op = "upsert"
            /\ \E r \in conversations' : r.file_path = p /\ r.id = last'.conversation.id
       /\ C26_Fails(p) => (last'.op = "indexFailed" /\ UNCHANGED storeVars)]_vars

(***************************************************************************)
(* C27.  Cancelling a full pass.                                            *)
(***************************************************************************)
\* C27: a full pass can be cancelled between two files: once the request is
\* there the pass does not start another file, it ends with the store as the
\* completed files left it, the tracking rows being those of the completed
\* files
C27_CancelAbortsPass ==
  [][(rerun.cancelled /\ pc = "loop") => (pc' = "idle" /\ UNCHANGED storeVars)]_vars

(***************************************************************************)
(* C28.  The startup migrations.                                            *)
(***************************************************************************)
\* C28: the migrations are idempotent and not fatal: initialize() on a
\* database that an earlier initialize() has migrated without a failure
\* changes no column, no index and no row, and a failure inside the subagent
\* or the cwd migration is logged and initialize() returns all the same
C28_MigrationsIdempotentNotFatal ==
  [][\A fault \in Faults :
       Initialize(fault) =>
         /\ (schema.clean /\ fault # "create_table") =>
              /\ UNCHANGED storeVars
              /\ schema'.columns = schema.columns /\ schema'.indexes = schema.indexes
         /\ schema'.raised <=> fault = "create_table"
         /\ schema'.logged # {} => ~schema'.raised]_vars

\* the second initialize() has run on a database whose legacy subagent row
\* the first one migrated
C28_SecondStartAfterDataMigration ==
  /\ schema.inits = 2 /\ schema.clean /\ ~schema.raised
  /\ schema.columns = MigratedColumns /\ schema.indexes = MigratedIndexes
  /\ \E r \in conversations :
       r.id = <<"agent">> /\ r.is_subagent /\ r.parent_id = <<"s1">>
\* an initialize() in which the data migration failed has returned
C28_FailureLogged ==
  /\ schema.inits = 1 /\ ~schema.raised
  /\ "Subagent data migration failed" \in schema.logged
  /\ \E r \in conversations : LikeSubagents(r.file_path) /\ ~r.is_subagent

(***************************************************************************)
(* C29.  Subagent detection.                                                *)
(***************************************************************************)
\* the positions of the path, but the first, whose segment is "subagents"
C29_Positions(filePath) == {i \in 2..Len(filePath) : filePath[i] = <<"subagents">>}

\* C29: for every path isSubagent is true iff some segment other than the
\* first equals "subagents", and parentId is then the segment right before
\* it; otherwise isSubagent is false and parentId is null.  A parent segment
\* that does not look like an id changes nothing but a warning.
C29_DetectionBySegment ==
  last.op = "_detectSubagent" =>
    IF C29_Positions(last.path) # {}
    THEN /\ last.conversation.isSubagent
         /\ \E i \in C29_Positions(last.path) : last.conversation.parentId = last.path[i - 1]
    ELSE /\ ~last.conversation.isSubagent
         /\ last.conversation.parentId = Null

(***************************************************************************)
(* C30.  resolveEncodedProjectNames.                                        *)
(***************************************************************************)
\* rows with the project field blanked
C30_BlankProject(rows) == {[r EXCEPT !.project = Null] : r \in rows}
\* the ids of the sessions whose project the step changes
C30_ChangedIds ==
  {r.id : r \in {x \in conversations :
                   \E y \in conversations' : y.id = x.id /\ y.project # x.project}}

\* C30: resolveEncodedProjectNames changes nothing but the project of session
\* rows and of their FTS rows, returns the number of sessions whose project
\* it changed and the number of folders with such a session, leaves the
\* other sessions and their FTS rows as they are, and a second call right
\* after the first returns resolved = 0 and changes nothing
C30_ResolveChangesProjectOnly ==
  [][CallResolveEncodedProjectNames =>
       /\ C30_BlankProject(conversations') = C30_BlankProject(conversations)
       /\ Cardinality(conversations') = Cardinality(conversations)
       /\ BagUpdate(conversation_fts',
                    [f \in DOMAIN conversation_fts' |-> [f EXCEPT !.project = Null]])
            = BagUpdate(conversation_fts,
                        [f \in DOMAIN conversation_fts |-> [f EXCEPT !.project = Null]])
       /\ \A f \in DOMAIN conversation_fts :
            IF f.conversation_id \in C30_ChangedIds
            THEN \E r \in conversations' :
                   /\ r.id = f.conversation_id
                   /\ [f EXCEPT !.project = r.project] \in DOMAIN conversation_fts'
            ELSE f \in DOMAIN conversation_fts'
       /\ UNCHANGED <<tool_usage, file_index, foreign_keys>>
       /\ last'.resolved = Cardinality(C30_ChangedIds)
       /\ last'.folders =
            Cardinality({FolderOf(r.file_path) :
                           r \in {x \in conversations : x.id \in C30_ChangedIds}})
       /\ last.op = "resolve" => (last'.resolved = 0 /\ UNCHANGED storeVars)]_vars

\* a call has followed at once a call that changed the project of a session
C30_SecondCallAfterChange ==
  /\ last.op = "resolve" /\ last.prev > 0
  /\ last.resolved = 0 /\ last.folders = 0
  /\ \E r \in conversations : r.cwd = CwdSrc /\ r.project = Basename(CwdP)

(***************************************************************************)
(* C31.  The primary model of a parsed file (ParseSpec).  Model identifiers *)
(* are names such as "m1": not digit strings, not members of               *)
(* Object.prototype.                                                        *)
(***************************************************************************)
\* the processing of the line raises inside the try block
C31_Raises(l) ==
  \/ l.kind = "garbage"
  \/ /\ l.kind = "json" /\ l.message /\ l.type \in {"assistant", "user"}
     /\ l.content.kind = "array"
     /\ \E i \in 1..Len(l.content.blocks) : l.content.blocks[i] = NullBlock
\* the message lines that carry message.model, in file order
C31_Carriers(lines) ==
  SelectSeq(lines, LAMBDA l : /\ l.kind = "json" /\ l.message
                              /\ l.type \in {"assistant", "user"}
                              /\ ~C31_Raises(l) /\ l.model # Null /\ l.model # Empty)
C31_Count(lines, m) == Cardinality({i \in 1..Len(lines) : lines[i].model = m})
C31_FirstSeen(lines, m) ==
  CHOOSE i \in 1..Len(lines) :
    lines[i].model = m /\ \A j \in 1..(i - 1) : lines[j].model # m
\* the model with the highest count, the first seen among equals; else null
C31_Primary(lines) ==
  LET t == C31_Carriers(lines)
      models == {t[i].model : i \in 1..Len(t)}
  IN IF models = {} THEN Null
     ELSE CHOOSE m \in models :
            \A n \in models \ {m} :
              \/ C31_Count(t, m) > C31_Count(t, n)
              \/ /\ C31_Count(t, m) = C31_Count(t, n)
                 /\ C31_FirstSeen(t, m) < C31_FirstSeen(t, n)

\* C31: the primary model the parser returns, and the primary_model of the
\* session row built from it, is the model with the highest number of
\* message lines carrying it among the lines read, the first seen in file
\* order when several share that number, and null when no line carries a
\* model.
C31_PrimaryModelIsMostUsedFirstSeen ==
  reader.promise = "resolved" =>
    LET read == SubSeq(reader.lines, 1, reader.read) IN
    /\ reader.result.primaryModel = C31_Primary(read)
    /\ pc = "loop" => \A r \in conversations : r.primary_model = C31_Primary(read)

\* a file whose two models have one line each has been indexed under the
\* model of its first line
C31_TieIndexed ==
  /\ pc = "loop" /\ ~reader.streamError
  /\ Len(reader.lines) = 2
  /\ reader.lines[1] = AssistantNoInput /\ reader.lines[2] = AssistantTools
  /\ \E r \in conversations : r.primary_model = <<"m2">>

\* a file whose second model has more lines than its first has been indexed
C31_LaterModelWins ==
  /\ pc = "loop" /\ Len(reader.lines) = 3
  /\ reader.lines[1] = AssistantTools /\ reader.lines[2] = AssistantNoInput
  /\ reader.lines[3] = AssistantNoInput
  /\ \E r \in conversations : r.primary_model = <<"m2">>

(***************************************************************************)
(* C32.  Tool usage of a parsed file (ParseSpec).                           *)
(***************************************************************************)
\* the blocks of a line that count as tool calls
C32_Calls(l) ==
  IF l.kind = "json" /\ l.message /\ l.type = "assistant" /\ ~C31_Raises(l)
       /\ l.content.kind \in {"array", "object"}
  THEN SelectSeq(l.content.blocks,
                 LAMBDA b : b.type = "tool_use" /\ b.name # Null /\ b.name # Empty)
  ELSE <<>>
RECURSIVE C32_Count(_, _)
\* the number of tool calls of the given name in the lines
C32_Count(lines, name) ==
  IF lines = <<>> THEN 0
  ELSE Len(SelectSeq(C32_Calls(Head(lines)), LAMBDA b : b.name = name))
         + C32_Count(Tail(lines), name)
\* every name a block of the lines carries
C32_Names(lines) ==
  UNION {{lines[i].content.blocks[j].name : j \in 1..Len(lines[i].content.blocks)} :
           i \in 1..Len(lines)}
RECURSIVE C32_SumOf(_)
C32_SumOf(tools) == IF tools = <<>> THEN 0 ELSE Head(tools)[2] + C32_SumOf(Tail(tools))

\* C32: in the result of every parsed file the total of tool usage is the sum
\* of the per-name counts, and the count of a name is the number of tool_use
\* blocks with that non-empty name in the content (array or single block) of
\* the assistant message lines read; nothing else is counted, and the
\* tool_usage rows of the indexed session carry these counts.
C32_ToolUsageCounts ==
  reader.promise = "resolved" =>
    LET read == SubSeq(reader.lines, 1, reader.read)
        tools == reader.result.tools
        counted == 1..Len(tools)
    IN
    /\ reader.result.toolTotal = C32_SumOf(tools)
    /\ \A i, j \in counted : tools[i][1] = tools[j][1] => i = j
    /\ \A i \in counted :
         /\ tools[i][1] # Null /\ tools[i][1] # Empty
         /\ tools[i][2] = C32_Count(read, tools[i][1])
    /\ \A name \in C32_Names(read) :
         C32_Count(read, name) > 0 => \E i \in counted : tools[i][1] = name
    /\ pc = "loop" =>
         tool_usage = {[conversation_id |-> SessionId(P1), tool_name |-> tools[i][1],
                        call_count |-> tools[i][2]] : i \in counted}

\* a file with a user line holding a tool_use block and an assistant line
\* with unnamed blocks and one named block has been indexed: one call
C32_AllKindsOfBlocks ==
  /\ pc = "loop" /\ ~reader.streamError
  /\ \E i, j \in 1..Len(reader.lines) :
       reader.lines[i] = UserToolUse /\ reader.lines[j] = AssistantUnnamed
  /\ reader.result.toolTotal = 1
  /\ \E r \in tool_usage : r.tool_name = <<"Write">> /\ r.call_count = 1

\* an array of blocks and a single block add up under one name
C32_ArrayAndSingleBlock ==
  /\ pc = "loop"
  /\ \E i, j \in 1..Len(reader.lines) :
       reader.lines[i] = AssistantTools /\ reader.lines[j] = AssistantOneBlock
  /\ \E r \in tool_usage : r.tool_name = <<"Read">> /\ r.call_count = 3

(***************************************************************************)
(* C33.  The project column of the FTS rows.                                *)
(***************************************************************************)
\* a session without project has an FTS row
C33_FtsRowWithoutProject ==
  \E f \in DOMAIN conversation_fts : \E r \in conversations :
    r.id = f.conversation_id /\ r.project = Null /\ f.project = Empty

\* C33: after any sequence of upserts, removals and resolutions every FTS row
\* carries the same project value as the session row with the same id
C33_FtsProjectEqualsSessionProject ==
  \A f \in DOMAIN conversation_fts : \A r \in conversations :
    r.id = f.conversation_id => f.project = r.project

\* what the store does keep: every FTS row carries the project of the session
\* row with the same id, the empty string when that row has no project (NULL)
C33_FtsProjectMirrorsSessionProject ==
  \A f \in DOMAIN conversation_fts : \A r \in conversations :
    r.id = f.conversation_id => f.project = OrEmpty(r.project)

(***************************************************************************)
(* C34.  The counters of a full pass.                                       *)
(***************************************************************************)
\* C34: every full pass that returns has scanned = indexed + skipped +
\* errors, every discovered file having added one to exactly one of the
\* three counters, and removed is the number of paths that were tracked when
\* the pass began and whose fs.stat did not succeed during the pass.
C34_CountersAddUp ==
  /\ (pc = "idle" /\ last.op = "pass") =>
       /\ stats.filesScanned = stats.filesIndexed + stats.filesSkipped + stats.errors
       /\ stats.filesScanned = Cardinality(files)
       /\ stats.filesRemoved
            = Cardinality(rerun.tracked \ (files \ rerun.statFailed))
  /\ pc \in {"loop", "parse"} =>
       stats.filesIndexed + stats.filesSkipped + stats.errors
         = Cardinality(files \ todo)

\* a pass has returned after it skipped a file, counted a failed stat as an
\* error and removed a tracked path
C34_SkippedFailedRemoved ==
  /\ pc = "idle" /\ last.op = "pass"
  /\ stats.filesSkipped > 0 /\ stats.errors > 0 /\ stats.filesRemoved > 0
  /\ rerun.statFailed # {}

\* a pass has returned after it indexed a file and skipped another
C34_IndexedAndSkipped ==
  /\ pc = "idle" /\ last.op = "pass"
  /\ stats.filesIndexed > 0 /\ stats.filesSkipped > 0

(***************************************************************************)
(* C35.  A full pass and the watcher (RaceSpec).                            *)
(***************************************************************************)
\* C35: whatever the watcher indexes while a full pass is suspended, the
\* deletion step at the end of the pass removes no session of a file that
\* exists on disk
C35_PassKeepsWatcherSessions ==
  [][FinishPass =>
       \A r \in conversations :
         disk[r.file_path] # NoFile =>
           \E x \in conversations' : x.id = r.id /\ x.file_path = r.file_path]_vars

(***************************************************************************)
(* C36.  A file whose turn failed is tried again.                           *)
(***************************************************************************)
\* needsIndexing for the file as it is on disk
C36_NeedsIndexing(p) == needsIndexing(Store, p, disk[p].mtime, disk[p].size)

C37_UninitializedBackendRaises ==
  /\ (databaseBackend.op \in DbOperations \cup IndexerOperations
        /\ ~databaseBackend.before) =>
       databaseBackend.outcome = "Database not initialized"
  /\ databaseBackend.outcome # "TypeError"
  /\ (databaseBackend.op = "initialize" /\ databaseBackend.before) =>
       /\ databaseBackend.outcome = "returned"
       /\ databaseBackend.isInitialized /\ databaseBackend.connection = "open"

(***************************************************************************)
(* C38  Hierarchy grouping loses and duplicates nothing.  For a result     *)
(* list without repeated ids (ids are the primary key of the sessions the  *)
(* list is read from): every conversation of the input is exactly once in  *)
(* the output, unchanged but for its subagent count; the other entries are *)
(* the stubs, one for every parent_id that an input subagent names, that   *)
(* no input parent has and that the store holds, each the store's record   *)
(* marked isStub; and every parent, stub or not, carries the number of     *)
(* input subagents with its id as parent_id.  The store is the one the     *)
(* server reads: without the database back end there is none.              *)
(***************************************************************************)
C38_DistinctIds(seq) ==
  \A i, j \in 1..Len(seq) : seq[i].id = seq[j].id => i = j

C38_Store == IF grouping.backend THEN grouping.stored ELSE {}

C38_InputSubagents(id) ==
  Cardinality({i \in 1..Len(grouping.input) :
                 grouping.input[i].isSubagent /\ grouping.input[i].parentId = id})

C38_StubIds ==
  {id \in {c.id : c \in C38_Store} :
     /\ C38_InputSubagents(id) > 0
     /\ ~\E i \in 1..Len(grouping.input) :
           ~grouping.input[i].isSubagent /\ grouping.input[i].id = id}

C38_Places(out, id, isStub) ==
  {j \in 1..Len(out) : out[j].id = id /\ out[j].isStub = isStub}

C38_GroupingLosesAndDuplicatesNothing ==
  C38_DistinctIds(grouping.input) =>
    \A k \in 1..Len(grouping.outputs) :
      LET out == grouping.outputs[k]
      IN /\ \A i \in 1..Len(grouping.input) :
              /\ Cardinality(C38_Places(out, grouping.input[i].id, FALSE)) = 1
              /\ \A j \in C38_Places(out, grouping.input[i].id, FALSE) :
                   [out[j] EXCEPT !.subagentCount = 0] = grouping.input[i]
         /\ \A id \in C38_StubIds :
              /\ Cardinality(C38_Places(out, id, TRUE)) = 1
              /\ \A j \in C38_Places(out, id, TRUE) :
                   [out[j] EXCEPT !.isStub = FALSE, !.subagentCount = 0] \in C38_Store
         /\ Len(out) = Len(grouping.input) + Cardinality(C38_StubIds)
         /\ \A j \in 1..Len(out) :
              ~out[j].isSubagent => out[j].subagentCount = C38_InputSubagents(out[j].id)

\* a stub for the two subagents of pq, beside a parent that has its subagent
C38_StubWithTwoSubagents ==
  /\ Len(grouping.input) = 3 /\ C38_DistinctIds(grouping.input)
  /\ \E k \in 1..Len(grouping.outputs) :
       /\ Len(grouping.outputs[k]) = 4
       /\ \E j \in 1..4 : /\ grouping.outputs[k][j].isStub
                            /\ grouping.outputs[k][j].subagentCount = 2
       /\ \E j \in 1..4 : /\ ~grouping.outputs[k][j].isSubagent
                            /\ ~grouping.outputs[k][j].isStub

\* without the back end a subagent of pq stays without a stub
C38_NoStubWithoutBackend ==
  /\ ~grouping.backend /\ C38_DistinctIds(grouping.input)
  /\ C38_InputSubagents(<<"pq">>) = 1
  /\ \E k \in 1..Len(grouping.outputs) :
       /\ Len(grouping.outputs[k]) = Len(grouping.input)
       /\ \E j \in 1..Len(grouping.outputs[k]) : grouping.outputs[k][j].subagentCount = 1

(***************************************************************************)
(* C39.  Lines are applied all-or-nothing (ParseSpec).                      *)
(***************************************************************************)
C39_WithoutRaising(lines) == SelectSeq(lines, LAMBDA l : ~C31_Raises(l))
C39_RaisingLines(lines) == Cardinality({i \in 1..Len(lines) : C31_Raises(lines[i])})
\* what the lines give to tokens, model tally, tool usage and searchable text
C39_Gathered(r) ==
  [input |-> r.input, output |-> r.output, total |-> r.total,
   modelCounts |-> r.modelCounts, primaryModel |-> r.primaryModel,
   tools |-> r.tools, toolTotal |-> r.toolTotal,
   searchableContent |-> r.searchableContent]

\* C39: every line whose processing raises (invalid JSON, or a message line
\* whose content array holds a null block) is counted as a parse error and
\* gives nothing to message_count, tokens, model tally, tool usage or
\* searchable text, and every other line gives all it has: the result is the
\* result of the file without the raising lines.
C39_LinesAreAllOrNothing ==
  reader.promise = "resolved" =>
    LET read == SubSeq(reader.lines, 1, reader.read)
        clean == _parseJsonlStreaming(C39_WithoutRaising(read))
    IN /\ reader.result.parseErrorCount = C39_RaisingLines(read)
       /\ reader.result.messageCount = clean.messageCount
       /\ C39_Gathered(reader.result) = C39_Gathered(clean)

\* what the parser does keep: the raising lines are counted as parse errors
\* and give nothing to tokens, model tally, tool usage or searchable text
C39_RaisingLineGivesNoTokensModelToolsText ==
  reader.promise = "resolved" =>
    LET read == SubSeq(reader.lines, 1, reader.read)
        clean == _parseJsonlStreaming(C39_WithoutRaising(read))
    IN /\ reader.result.parseErrorCount = C39_RaisingLines(read)
       /\ C39_Gathered(reader.result) = C39_Gathered(clean)

\* the message lines that raise are in message_count
C39_RaisingMessageLinesAreCounted ==
  reader.promise = "resolved" =>
    LET read == SubSeq(reader.lines, 1, reader.read)
        clean == _parseJsonlStreaming(C39_WithoutRaising(read))
    IN reader.result.messageCount
         = clean.messageCount
             + Cardinality({i \in 1..Len(read) : C31_Raises(read[i]) /\ read[i].kind = "json"})

====
